---- MODULE Spec2Model ----
(***************************************************************************)
(* A model of the authenticated forward/CONNECT proxy (src/server.py) and  *)
(* of the reverse relay (src/proxy.py).                                    *)
(*                                                                         *)
(* Text is modelled as a sequence of code points (naturals), so that       *)
(* lower(), split(), base64 and UTF-8 decoding are computed, not assumed.  *)
(***************************************************************************)
EXTENDS Integers, Sequences, FiniteSets, TLC

VARIABLES
  users,      \* the users table: username -> row (salt, hash, iterations, algo)
  hist,       \* log of the create_user calls made so far, oldest first
  vres,       \* the last verify_user call and what it returned
  hv,         \* the header value handed to parse_basic_auth
  parsed,     \* what parse_basic_auth returned for hv
  \* one accepted connection and its handler thread
  command,          \* self.command
  path,             \* self.path, the request target
  version,          \* self.request_version
  headers,          \* self.headers
  pc,               \* where the handler is
  close_connection, \* self.close_connection
  nreq,             \* requests read on this connection so far
  replies,          \* status lines the proxy wrote to the client, in order
  connectResult,    \* outcome of socket.create_connection: none, ok, refused
  target,           \* the resolved target (host, port, path)
  exitReason,       \* why the tunnel loop ended
  clientOpen,       \* the client socket is open at the proxy
  remoteOpen,       \* the upstream socket is open at the proxy
  rlist,            \* what the last select() returned
  idle,             \* seconds the current select() has waited
  remaining,        \* request-body bytes still to forward
  cliWritten,       \* bytes the client wrote after its request head
  cliBuf,           \* of those, the bytes the proxy has not read yet
  cliEOF,           \* the client closed its end
  cliRecv,          \* relayed bytes delivered to the client
  tgtWritten,       \* bytes the target wrote
  tgtBuf,           \* of those, the bytes the proxy has not read yet
  tgtEOF,           \* the target closed its end
  tgtRecv,          \* body / tunnel bytes delivered to the target
  upReq,            \* request line and header block delivered to the target
  \* one request to the reverse relay
  rpc,              \* where proxy() and the response generator are
  rpath,            \* the path of the caller's request
  rheaders,         \* request.headers: the caller's header fields
  upHeaders,        \* upstream.headers: the upstream response's header fields
  upBody,           \* the body chunks the upstream produces, in order
  upOpen,           \* the upstream response is open
  upPos,            \* how many chunks have been read from the upstream
  upSent,           \* the request headers sent to the upstream
  callerStatus,     \* the status the caller received, 0 before there is one
  callerHeaders,    \* the response headers the caller received
  callerBody,       \* the body pieces the caller received, in order
  \* the credential stores on disk and the proxy's configuration
  dbs,              \* location -> users table, for each database file
  db_path,          \* the global DB_PATH of the running proxy (args.db)
  gate,             \* the last check of credentials by the running proxy
  \* the listening server and its connections
  tls_offload,      \* args.tls_offload: the listening socket is not wrapped
  accepting,        \* what the serve_forever loop is doing
  backlog,          \* connections made and not accepted yet
  threads           \* connection -> state of its handler thread

storeVars == <<users, hist, vres>>
decodeVars == <<hv, parsed>>
reqVars == <<command, path, version, headers>>
ctlVars == <<pc, close_connection, nreq, replies, connectResult, target, exitReason>>
sockVars == <<clientOpen, remoteOpen>>
loopVars == <<rlist, idle, remaining>>
cliVars == <<cliWritten, cliBuf, cliEOF, cliRecv>>
tgtVars == <<tgtWritten, tgtBuf, tgtEOF, tgtRecv, upReq>>
connVars == <<reqVars, ctlVars, sockVars, loopVars, cliVars, tgtVars>>
revVars == <<rpc, rpath, rheaders, upHeaders, upBody, upOpen, upPos, upSent,
             callerStatus, callerHeaders, callerBody>>
cfgVars == <<dbs, db_path, gate>>
srvVars == <<tls_offload, accepting, backlog, threads>>
vars == <<storeVars, decodeVars, connVars, revVars, cfgVars, srvVars>>

-----------------------------------------------------------------------------
(* Text                                                                    *)

\* Texts are written out as code points, with the text in a comment.
COLON == 58 (* : *)
EQUALS == 61 (* = *)

\* str.lower() on one code point (ASCII letters; other code points of the
\* inputs used here have no lower-case form).
LowerChar(c) == IF c >= 65 /\ c <= 90 THEN c + 32 ELSE c

Lower(s) == [i \in 1..Len(s) |-> LowerChar(s[i])]

\* What str.split() with no argument treats as a separator.
IsSpace(c) ==
  c \in (9..13) \cup (28..32) \cup {133, 160, 5760, 8232, 8233, 8239, 8287, 12288}
        \cup (8192..8202)

\* str.split(): the maximal runs of non-separator code points, in order.
RECURSIVE SplitFrom(_, _, _)
SplitFrom(s, i, cur) ==
  IF i > Len(s)
    THEN IF cur = <<>> THEN <<>> ELSE <<cur>>
    ELSE IF IsSpace(s[i])
           THEN IF cur = <<>>
                  THEN SplitFrom(s, i + 1, <<>>)
                  ELSE <<cur>> \o SplitFrom(s, i + 1, <<>>)
           ELSE SplitFrom(s, i + 1, Append(cur, s[i]))

Split(s) == SplitFrom(s, 1, <<>>)

\* The index of the first / last occurrence of code point c in s, 0 if none.
IndexOf(s, c) ==
  IF \E i \in 1..Len(s) : s[i] = c
    THEN CHOOSE i \in 1..Len(s) : s[i] = c /\ \A j \in 1..(i - 1) : s[j] # c
    ELSE 0

LastIndexOf(s, c) ==
  IF \E i \in 1..Len(s) : s[i] = c
    THEN CHOOSE i \in 1..Len(s) : s[i] = c /\ \A j \in (i + 1)..Len(s) : s[j] # c
    ELSE 0

\* All sequences over S of length at most n.
SeqsUpTo(S, n) == UNION {[1..k -> S] : k \in 0..n}

IsPrefix(s, t) == Len(s) <= Len(t) /\ SubSeq(t, 1, Len(s)) = s

-----------------------------------------------------------------------------
(* Credential store (sqlite table users)                                   *)

PBKDF2_ITER == 200000

MaxOps == 3

Usernames == {<<97>> (* a *), <<98>> (* b *)}
Passwords == {<<112>> (* p *), <<113>> (* q *), <<112, 58, 113>> (* p:q *)}

\* secrets.token_hex(16): any one of the values the generator can produce.
Salts == {"s1", "s2"}

\* hashlib.pbkdf2_hmac("sha256", password, salt, iterations).hex(): a
\* deterministic function of its three arguments, taken to be collision free.
pbkdf2_hmac(password, salt, iterations) ==
  [pw |-> password, salt |-> salt, iter |-> iterations]

\* The table right after CREATE TABLE on a fresh database: no rows.
EmptyTable == <<>>

\* init_db: CREATE TABLE IF NOT EXISTS leaves an existing table as it is.
init_db(table) == table

\* INSERT OR IGNORE: a provisioning that keeps the row already there.
create_user_keep(table, username, password, salt) ==
  IF username \in DOMAIN table
    THEN table
    ELSE [u \in DOMAIN table \cup {username} |->
            IF u = username
              THEN [salt |-> salt,
                    hash |-> pbkdf2_hmac(password, salt, PBKDF2_ITER),
                    iterations |-> PBKDF2_ITER,
                    algo |-> "pbkdf2_sha256"]
              ELSE table[u]]

\* create_user: INSERT OR REPLACE of the row keyed by username.
create_user(table, username, password, salt) ==
  [u \in DOMAIN table \cup {username} |->
     IF u = username
       THEN [salt |-> salt,
             hash |-> pbkdf2_hmac(password, salt, PBKDF2_ITER),
             iterations |-> PBKDF2_ITER,
             algo |-> "pbkdf2_sha256"]
       ELSE table[u]]

\* verify_user: no row, or an unknown algorithm tag, is False; otherwise the
\* digest of the presented password under the stored salt and iteration
\* count is compared with the stored hash.
verify_user(table, username, password) ==
  IF username \notin DOMAIN table
    THEN FALSE
    ELSE LET row == table[username] IN
         IF row.algo # "pbkdf2_sha256"
           THEN FALSE
           ELSE pbkdf2_hmac(password, row.salt, row.iterations) = row.hash

NoCall == [called |-> FALSE, user |-> <<>>, pw |-> <<>>, result |-> FALSE]

\* main(): init_db(DB_PATH) runs before anything else touches the store.
InitStore ==
  /\ users = init_db(EmptyTable)
  /\ hist = <<>>
  /\ vres = NoCall

InitDb ==
  /\ users' = init_db(users)
  /\ vres' = NoCall
  /\ UNCHANGED <<hist, decodeVars, revVars, cfgVars, srvVars, connVars>>

CreateUser ==
  /\ Len(hist) < MaxOps
  /\ \E u \in Usernames, p \in Passwords, s \in Salts :
       /\ users' = create_user(users, u, p, s)
       /\ hist' = Append(hist, [user |-> u, pw |-> p])
  /\ vres' = NoCall
  /\ UNCHANGED <<decodeVars, revVars, cfgVars, srvVars, connVars>>

\* A username no create_user call ever names.
Stranger == <<122>> (* z *)

VerifyUser ==
  /\ \E u \in Usernames \cup {Stranger}, p \in Passwords :
       vres' = [called |-> TRUE, user |-> u, pw |-> p,
                result |-> verify_user(users, u, p)]
  /\ UNCHANGED <<users, hist, decodeVars, revVars, cfgVars, srvVars, connVars>>

-----------------------------------------------------------------------------
(* Basic-Auth decoder                                                      *)

\* The value of a character in the base64 alphabet; 64 for any other.
B64Val(c) ==
  IF c >= 65 /\ c <= 90 THEN c - 65
  ELSE IF c >= 97 /\ c <= 122 THEN c - 71
  ELSE IF c >= 48 /\ c <= 57 THEN c + 4
  ELSE IF c = 43 THEN 62
  ELSE IF c = 47 THEN 63
  ELSE 64

B64Error == [ok |-> FALSE, bytes |-> <<>>]

\* binascii.a2b_base64 in its lenient mode: characters outside the alphabet
\* are skipped, '=' ends the input once it completes a quad, and leftover
\* characters of an incomplete quad are an error.
\*   q: position in the current quad, left: bits carried, pads: '=' seen in a row
RECURSIVE A2B(_, _, _, _, _, _)
A2B(s, i, q, left, pads, out) ==
  IF i > Len(s)
    THEN IF q # 0 THEN B64Error ELSE [ok |-> TRUE, bytes |-> out]
    ELSE
      IF s[i] = EQUALS
        THEN IF q >= 2 /\ q + pads + 1 >= 4
               THEN [ok |-> TRUE, bytes |-> out]
               ELSE A2B(s, i + 1, q, left, IF q >= 2 THEN pads + 1 ELSE pads, out)
        ELSE LET v == B64Val(s[i]) IN
          IF v >= 64
            THEN A2B(s, i + 1, q, left, pads, out)
            ELSE CASE q = 0 -> A2B(s, i + 1, 1, v, 0, out)
                   [] q = 1 -> A2B(s, i + 1, 2, v % 16, 0,
                                   Append(out, left * 4 + v \div 16))
                   [] q = 2 -> A2B(s, i + 1, 3, v % 4, 0,
                                   Append(out, left * 16 + v \div 4))
                   [] q = 3 -> A2B(s, i + 1, 0, 0, 0,
                                   Append(out, left * 64 + v))

\* base64.b64decode(token): a str argument must be ASCII, then a2b_base64.
b64decode(token) ==
  IF \E i \in 1..Len(token) : token[i] >= 128
    THEN B64Error
    ELSE A2B(token, 1, 0, 0, 0, <<>>)

IsCont(bs, i) == i <= Len(bs) /\ bs[i] >= 128 /\ bs[i] <= 191

\* bytes.decode(errors="ignore"): UTF-8, dropping every byte that is not part
\* of a well-formed sequence.
RECURSIVE Utf8Ignore(_, _)
Utf8Ignore(bs, i) ==
  IF i > Len(bs) THEN <<>>
  ELSE LET b == bs[i] IN
    IF b < 128 THEN <<b>> \o Utf8Ignore(bs, i + 1)
    ELSE IF b >= 194 /\ b <= 223 /\ IsCont(bs, i + 1)
      THEN <<(b - 192) * 64 + (bs[i + 1] - 128)>> \o Utf8Ignore(bs, i + 2)
    ELSE IF /\ b >= 224 /\ b <= 239
            /\ IsCont(bs, i + 1) /\ IsCont(bs, i + 2)
            /\ (b = 224 => bs[i + 1] >= 160)
            /\ (b = 237 => bs[i + 1] <= 159)
      THEN <<(b - 224) * 4096 + (bs[i + 1] - 128) * 64 + (bs[i + 2] - 128)>>
             \o Utf8Ignore(bs, i + 3)
    ELSE IF /\ b >= 240 /\ b <= 244
            /\ IsCont(bs, i + 1) /\ IsCont(bs, i + 2) /\ IsCont(bs, i + 3)
            /\ (b = 240 => bs[i + 1] >= 144)
            /\ (b = 244 => bs[i + 1] <= 143)
      THEN <<(b - 240) * 262144 + (bs[i + 1] - 128) * 4096
               + (bs[i + 2] - 128) * 64 + (bs[i + 3] - 128)>>
             \o Utf8Ignore(bs, i + 4)
    ELSE Utf8Ignore(bs, i + 1)

\* (None, None)
NoCreds == [ok |-> FALSE, user |-> <<>>, pw |-> <<>>]

Creds(user, pw) == [ok |-> TRUE, user |-> user, pw |-> pw]

\* decoded.rsplit(":", 1): a split at the last colon instead of the first.
SplitCredsLast(decoded) ==
  LET k == LastIndexOf(decoded, COLON) IN
  Creds(SubSeq(decoded, 1, k - 1), SubSeq(decoded, k + 1, Len(decoded)))

\* decoded.split(":", 1), for a decoded text that holds a colon.
SplitCreds(decoded) ==
  LET k == IndexOf(decoded, COLON) IN
  Creds(SubSeq(decoded, 1, k - 1), SubSeq(decoded, k + 1, Len(decoded)))

\* parse_basic_auth
parse_basic_auth(header_value) ==
  IF header_value = <<>> THEN NoCreds
  ELSE LET parts == Split(header_value) IN
    IF Len(parts) # 2 THEN NoCreds
    ELSE LET scheme == parts[1]
             token == parts[2]
         IN
      IF Lower(scheme) # <<98, 97, 115, 105, 99>> (* basic *) THEN NoCreds
      ELSE LET raw == b64decode(token) IN
        IF ~raw.ok THEN NoCreds
        ELSE LET decoded == Utf8Ignore(raw.bytes, 1) IN
          IF \E i \in 1..Len(decoded) : decoded[i] = COLON
            THEN SplitCreds(decoded)
            ELSE NoCreds

MaxTok == 4

\* Characters the tokens are drawn from: Y T o 6 decode to 'a', ':', bytes
\* above 127 and more, '=' is padding.
TokChars == {89 (* Y *), 84 (* T *), 111 (* o *), 54 (* 6 *), EQUALS}

Tokens ==
  SeqsUpTo(TokChars, MaxTok)
    \cup {<<89, 84, 33, 111, 54>> (* YT!o6 *),
          <<89, 84, 112, 105, 79, 109, 77, 61>> (* YTpiOmM= *),
          <<89, 233, 61, 61>>}

Schemes ==
  {<<66, 97, 115, 105, 99>> (* Basic *), <<98, 65, 83, 73, 99>> (* bASIc *),
   <<66, 101, 97, 114, 101, 114>> (* Bearer *)}

HeaderValues ==
  {<<>>}
    \cup {pre \o scheme \o sep \o token \o post :
            pre \in {<<>>, <<32>>},
            scheme \in Schemes,
            sep \in {<<>>, <<32>>, <<9, 32>>},
            token \in Tokens,
            post \in {<<>>, <<32, 120>>}}

NotParsed == [done |-> FALSE, res |-> NoCreds]

InitDecode ==
  /\ hv \in HeaderValues
  /\ parsed = NotParsed

Decode ==
  /\ ~parsed.done
  /\ parsed' = [done |-> TRUE, res |-> parse_basic_auth(hv)]
  /\ UNCHANGED <<hv, storeVars, connVars, revVars, cfgVars, srvVars>>

-----------------------------------------------------------------------------
(* Request parsing helpers of the proxy handler                            *)

IsDigit(c) == c >= 48 /\ c <= 57

\* str.strip(): without the separators at both ends.
RECURSIVE Strip(_)
Strip(s) ==
  IF s = <<>> THEN s
  ELSE IF IsSpace(s[1]) THEN Strip(Tail(s))
  ELSE IF IsSpace(s[Len(s)]) THEN Strip(SubSeq(s, 1, Len(s) - 1))
  ELSE s

RECURSIVE DigitsValue(_, _)
DigitsValue(s, acc) ==
  IF s = <<>> THEN acc
  ELSE IF s[1] = 95 THEN DigitsValue(Tail(s), acc)
  ELSE DigitsValue(Tail(s), acc * 10 + (s[1] - 48))

\* int(text): optional sign, decimal digits (single underscores between
\* them), surrounding whitespace ignored; anything else raises ValueError.
ParseInt(text) ==
  LET t == Strip(text)
      signed == t # <<>> /\ t[1] \in {43, 45}
      d == IF signed THEN Tail(t) ELSE t
      wellFormed ==
        /\ d # <<>>
        /\ IsDigit(d[1]) /\ IsDigit(d[Len(d)])
        /\ \A i \in 1..Len(d) :
             \/ IsDigit(d[i])
             \/ d[i] = 95 /\ i < Len(d) /\ d[i + 1] # 95
  IN IF wellFormed
       THEN [ok |-> TRUE,
             val |-> IF signed /\ t[1] = 45
                       THEN 0 - DigitsValue(d, 0) ELSE DigitsValue(d, 0)]
       ELSE [ok |-> FALSE, val |-> 0]

\* str.partition(":"): text before the first colon, text after it.
Partition(s) ==
  LET k == IndexOf(s, COLON) IN
  IF k = 0 THEN [head |-> s, tail |-> <<>>]
  ELSE [head |-> SubSeq(s, 1, k - 1), tail |-> SubSeq(s, k + 1, Len(s))]

\* str.rpartition(":"): text before the last colon, text after it; with no
\* colon the whole text is the tail.
RPartition(s) ==
  LET k == LastIndexOf(s, COLON) IN
  IF k = 0 THEN [head |-> <<>>, tail |-> s]
  ELSE [head |-> SubSeq(s, 1, k - 1), tail |-> SubSeq(s, k + 1, Len(s))]

\* The index of the first code point of s, at or after i, that is in set cs;
\* Len(s) + 1 if there is none.
FirstOf(s, i, cs) ==
  IF \E k \in i..Len(s) : s[k] \in cs
    THEN CHOOSE k \in i..Len(s) : s[k] \in cs /\ \A j \in i..(k - 1) : s[j] \notin cs
    ELSE Len(s) + 1

IsSchemeChar(c) ==
  \/ c >= 65 /\ c <= 90
  \/ c >= 97 /\ c <= 122
  \/ IsDigit(c)
  \/ c \in {43, 45, 46}

\* The authority part of a URI: .hostname (lower-cased, after any userinfo)
\* and .port, which raises ValueError unless it is decimal digits of a
\* number up to 65535.
UrlHostPort(hp) ==
  [hostname |-> Lower(hp.head),
   portOk |-> \/ hp.tail = <<>>
              \/ /\ \A i \in 1..Len(hp.tail) : IsDigit(hp.tail[i])
                 /\ DigitsValue(hp.tail, 0) <= 65535,
   port |-> IF hp.tail # <<>> /\ \A i \in 1..Len(hp.tail) : IsDigit(hp.tail[i])
              THEN DigitsValue(hp.tail, 0) ELSE 0]

UrlAuthority(netloc) ==
  UrlHostPort(Partition(SubSeq(netloc, LastIndexOf(netloc, 64) + 1, Len(netloc))))

\* Path and query of what follows the authority, the fragment dropped.
UrlPathQuery(noFrag, q) ==
  [path |-> SubSeq(noFrag, 1, q - 1), query |-> SubSeq(noFrag, q + 1, Len(noFrag))]

UrlTail(after) ==
  UrlPathQuery(SubSeq(after, 1, FirstOf(after, 1, {35}) - 1),
               FirstOf(SubSeq(after, 1, FirstOf(after, 1, {35}) - 1), 1, {63}))

UrlParts(scheme, netloc, auth, tail) ==
  [scheme |-> scheme, netloc |-> netloc, path |-> tail.path, query |-> tail.query,
   hostname |-> auth.hostname, portOk |-> auth.portOk, port |-> auth.port]

\* What follows "scheme:": "//" starts the authority, which ends at the
\* first of "/", "?", "#".
UrlAfterScheme(scheme, rest, e) ==
  IF Len(rest) >= 2 /\ rest[1] = 47 /\ rest[2] = 47
    THEN UrlParts(scheme, SubSeq(rest, 3, e - 1),
                  UrlAuthority(SubSeq(rest, 3, e - 1)),
                  UrlTail(SubSeq(rest, e, Len(rest))))
    ELSE UrlParts(scheme, <<>>, UrlAuthority(<<>>), UrlTail(rest))

UrlHasScheme(url, c) ==
  /\ c > 1
  /\ LowerChar(url[1]) >= 97 /\ LowerChar(url[1]) <= 122
  /\ \A i \in 1..(c - 1) : IsSchemeChar(url[i])

UrlFrom(url, c) ==
  IF UrlHasScheme(url, c)
    THEN UrlAfterScheme(Lower(SubSeq(url, 1, c - 1)), SubSeq(url, c + 1, Len(url)),
                        FirstOf(SubSeq(url, c + 1, Len(url)), 3, {35, 47, 63}))
    ELSE UrlAfterScheme(<<>>, url, FirstOf(url, 3, {35, 47, 63}))

\* urllib.parse.urlsplit, for request targets of the forms
\* scheme://host[:port][/path][?query][#fragment] and /path[?query]:
\* scheme and hostname are lower-cased.
urlsplit(url) == UrlFrom(url, IndexOf(url, COLON))

-----------------------------------------------------------------------------
(* Headers                                                                 *)

\* Header names as the handler spells them.
H_PROXY_AUTHORIZATION == <<80, 114, 111, 120, 121, 45, 65, 117, 116, 104, 111, 114, 105, 122, 97, 116, 105, 111, 110>> (* Proxy-Authorization *)
H_HOST == <<72, 111, 115, 116>> (* Host *)
H_CONTENT_LENGTH == <<67, 111, 110, 116, 101, 110, 116, 45, 76, 101, 110, 103, 116, 104>> (* Content-Length *)
H_CONNECTION == <<67, 111, 110, 110, 101, 99, 116, 105, 111, 110>> (* Connection *)

HOP_BY_HOP ==
  {<<99, 111, 110, 110, 101, 99, 116, 105, 111, 110>> (* connection *),
   <<107, 101, 101, 112, 45, 97, 108, 105, 118, 101>> (* keep-alive *),
   <<112, 114, 111, 120, 121, 45, 97, 117, 116, 104, 101, 110, 116, 105, 99, 97, 116, 101>> (* proxy-authenticate *),
   <<112, 114, 111, 120, 121, 45, 97, 117, 116, 104, 111, 114, 105, 122, 97, 116, 105, 111, 110>> (* proxy-authorization *),
   <<116, 101>> (* te *),
   <<116, 114, 97, 105, 108, 101, 114>> (* trailer *),
   <<116, 114, 97, 110, 115, 102, 101, 114, 45, 101, 110, 99, 111, 100, 105, 110, 103>> (* transfer-encoding *),
   <<117, 112, 103, 114, 97, 100, 101>> (* upgrade *)}

\* self.headers is a list of fields <<name, value>> in the order received.
\* self.headers.get(name): the value of the first field whose name matches
\* without regard to letter case.
HeaderIndex(hs, name) ==
  IF \E i \in 1..Len(hs) : Lower(hs[i][1]) = Lower(name)
    THEN CHOOSE i \in 1..Len(hs) :
           /\ Lower(hs[i][1]) = Lower(name)
           /\ \A j \in 1..(i - 1) : Lower(hs[j][1]) # Lower(name)
    ELSE 0

\* name in self.headers
HeaderContains(hs, name) == HeaderIndex(hs, name) # 0

\* self.headers[name], for a name the message contains.
HeaderGet(hs, name) == hs[HeaderIndex(hs, name)][2]

\* A dict, as the sequence of its <<key, value>> items in insertion order.
DictHas(d, k) == \E i \in 1..Len(d) : d[i][1] = k

\* d[k] = v: a key already there keeps its place and takes the new value.
DictSet(d, k, v) ==
  IF DictHas(d, k)
    THEN [i \in 1..Len(d) |-> IF d[i][1] = k THEN <<k, v>> ELSE d[i]]
    ELSE Append(d, <<k, v>>)

\* d.pop(k, None)
DictPop(d, k) == SelectSeq(d, LAMBDA item : item[1] # k)

\* {k: v for k, v in items if keep(k)}
RECURSIVE DictOf(_, _)
DictOf(items, d) ==
  IF items = <<>> THEN d
  ELSE DictOf(Tail(items), DictSet(d, items[1][1], items[1][2]))

\* A filter that compares the names as spelled, not lower-cased.
FilterHeadersCaseSensitive(hs) ==
  DictOf(SelectSeq(hs, LAMBDA f : f[1] \notin HOP_BY_HOP), <<>>)

\* _filter_headers
FilterHeaders(hs) ==
  DictOf(SelectSeq(hs, LAMBDA f : Lower(f[1]) \notin HOP_BY_HOP), <<>>)

\* The header block _do_forward sends upstream: the filtered headers without
\* the key "Proxy-Authorization", plus "Host" when that key is not there.
ForwardHeaders(hs, target_host) ==
  LET d == DictPop(FilterHeaders(hs), H_PROXY_AUTHORIZATION) IN
  IF DictHas(d, H_HOST) THEN d ELSE DictSet(d, H_HOST, target_host)

\* A gate that accepts whatever credentials the header decodes to.
check_auth_unverified(hs, table) ==
  IF ~HeaderContains(hs, H_PROXY_AUTHORIZATION) THEN FALSE
  ELSE LET auth == HeaderGet(hs, H_PROXY_AUTHORIZATION) IN
    IF auth = <<>> THEN FALSE
    ELSE LET c == parse_basic_auth(auth) IN
      IF ~c.ok \/ c.user = <<>> THEN FALSE
      ELSE TRUE

\* check_auth
check_auth(hs, table) ==
  IF ~HeaderContains(hs, H_PROXY_AUTHORIZATION) THEN FALSE
  ELSE LET auth == HeaderGet(hs, H_PROXY_AUTHORIZATION) IN
    IF auth = <<>> THEN FALSE
    ELSE LET c == parse_basic_auth(auth) IN
      IF ~c.ok \/ c.user = <<>> THEN FALSE
      ELSE verify_user(table, c.user, c.pw)

-----------------------------------------------------------------------------
(* The connection handler: common parts                                    *)

TIMEOUT == 15

MaxData == 3
ChunkSize == 2
MaxReq == 2

\* BaseHTTPRequestHandler.protocol_version, which ProxyHandler does not set.
protocol_version == "HTTP/1.0"

\* parse_request: whether the connection closes after this request.
CloseConnection(ver, hs) ==
  LET keep == ver = "HTTP/1.1" /\ protocol_version = "HTTP/1.1"
      conntype == IF HeaderContains(hs, H_CONNECTION)
                    THEN Lower(HeaderGet(hs, H_CONNECTION)) ELSE <<>>
  IN IF conntype = <<99, 108, 111, 115, 101>> (* close *) THEN TRUE
     ELSE IF /\ conntype = <<107, 101, 101, 112, 45, 97, 108, 105, 118, 101>> (* keep-alive *)
             /\ protocol_version = "HTTP/1.1"
            THEN FALSE
            ELSE ~keep

\* do_AUTH_REQUIRED
R407 ==
  [code |-> 407, reason |-> "Proxy Authentication Required",
   hdrs |-> <<"Proxy-Authenticate: Basic realm=\"SecureProxy\"">>]

\* send_response(200, "Connection Established"); end_headers()
R200 == [code |-> 200, reason |-> "Connection Established", hdrs |-> <<>>]

\* send_error(code, message): an error page, with Connection: close.
ErrorReply(code, reason) ==
  [code |-> code, reason |-> reason, hdrs |-> <<"Connection: close">>]

NoTarget == [host |-> <<>>, port |-> 0, path |-> <<>>]
NoRequest == [sent |-> FALSE, line |-> <<>>, headers |-> <<>>]

\* The k-th byte each peer writes: distinct within and across the streams.
ClientByte(k) == k
TargetByte(k) == 100 + k

Min(a, b) == IF a < b THEN a ELSE b

\* A read that returns the newest buffered byte instead of the oldest ones.
RecvLast(buf) == IF buf = <<>> THEN <<>> ELSE <<buf[Len(buf)]>>

\* socket.recv(8192): what is buffered, up to the chunk size.
Recv(buf) == SubSeq(buf, 1, Min(ChunkSize, Len(buf)))

\* A read that leaves what it returned in the buffer.
DropNone(buf, n) == buf

\* What recv leaves buffered after it returned n bytes.
Drop(buf, n) == SubSeq(buf, n + 1, Len(buf))

TunnelPcs == {"select", "client", "remote"}
ForwardPcs == {"fwd_send", "fwd_body", "fwd_relay"}

\* The state of a connection whose request head has been read and parsed.
ConnStart ==
  /\ pc = "dispatch"
  /\ close_connection = CloseConnection(version, headers)
  /\ nreq = 1
  /\ replies = <<>>
  /\ connectResult = "none"
  /\ target = NoTarget
  /\ exitReason = "none"
  /\ clientOpen = TRUE
  /\ remoteOpen = FALSE
  /\ rlist = {}
  /\ idle = 0
  /\ remaining = 0
  /\ cliWritten = <<>> /\ cliBuf = <<>> /\ cliEOF = FALSE /\ cliRecv = <<>>
  /\ tgtWritten = <<>> /\ tgtBuf = <<>> /\ tgtEOF = FALSE /\ tgtRecv = <<>>
  /\ upReq = NoRequest

\* The peers. A CONNECT client writes tunnel bytes once it has the 200; a
\* forward client writes its request body right after the request head.
ClientWrite ==
  /\ clientOpen /\ ~cliEOF
  /\ pc \in TunnelPcs \cup ForwardPcs
  /\ Len(cliWritten) < MaxData
  /\ cliWritten' = Append(cliWritten, ClientByte(Len(cliWritten) + 1))
  /\ cliBuf' = Append(cliBuf, ClientByte(Len(cliWritten) + 1))
  /\ UNCHANGED <<cliEOF, cliRecv, storeVars, decodeVars, revVars, cfgVars, srvVars, reqVars, ctlVars,
                 sockVars, loopVars, tgtVars>>

ClientClose ==
  /\ clientOpen /\ ~cliEOF
  /\ pc \in {"connected"} \cup TunnelPcs \cup ForwardPcs
  /\ cliEOF' = TRUE
  /\ UNCHANGED <<cliWritten, cliBuf, cliRecv, storeVars, decodeVars, revVars, cfgVars, srvVars, reqVars,
                 ctlVars, sockVars, loopVars, tgtVars>>

TargetWrite ==
  /\ remoteOpen /\ ~tgtEOF
  /\ Len(tgtWritten) < MaxData
  /\ tgtWritten' = Append(tgtWritten, TargetByte(Len(tgtWritten) + 1))
  /\ tgtBuf' = Append(tgtBuf, TargetByte(Len(tgtWritten) + 1))
  /\ UNCHANGED <<tgtEOF, tgtRecv, upReq, storeVars, decodeVars, revVars, cfgVars, srvVars, reqVars,
                 ctlVars, sockVars, loopVars, cliVars>>

TargetClose ==
  /\ remoteOpen /\ ~tgtEOF
  /\ tgtEOF' = TRUE
  /\ UNCHANGED <<tgtWritten, tgtBuf, tgtRecv, upReq, storeVars, decodeVars, revVars, cfgVars, srvVars,
                 reqVars, ctlVars, sockVars, loopVars, cliVars>>

\* handle() and the server's shutdown_request: after the handler method
\* returned, the next request is read only if close_connection is false; an
\* exception that escaped the method ends the connection. Either way the
\* server then closes the client socket.
HandlerFinish ==
  /\ pc \in {"return", "raised"}
  /\ IF pc = "raised" \/ close_connection \/ nreq >= MaxReq
       THEN /\ pc' = "closed"
            /\ clientOpen' = FALSE
            /\ UNCHANGED <<nreq, replies>>
       ELSE /\ pc' = "dispatch"
            /\ nreq' = nreq + 1
            /\ UNCHANGED <<clientOpen, replies>>
  /\ UNCHANGED <<close_connection, connectResult, target, exitReason, remoteOpen,
                 storeVars, decodeVars, revVars, cfgVars, srvVars, reqVars, loopVars, cliVars, tgtVars>>

\* An upstream socket that no statement closed, the local variable remote
\* of a call an exception unwound, is closed when the interpreter reclaims
\* the frame: at once, later, or not before the process ends.
CollectRemote ==
  /\ pc \in {"raised", "closed"}
  /\ remoteOpen
  /\ remoteOpen' = FALSE
  /\ UNCHANGED <<clientOpen, reqVars, ctlVars, loopVars, cliVars, tgtVars,
                 storeVars, decodeVars, revVars, cfgVars, srvVars>>

-----------------------------------------------------------------------------
(* do_CONNECT                                                              *)

\* A proxy that answers a failed connection attempt like a successful one.
ConnectRefusedReplyOk == R200

\* send_error(502, "Bad gateway: ...") after create_connection failed.
ConnectRefusedReply == ErrorReply(502, "Bad gateway")

\* do_CONNECT up to the reply that follows the connection attempt: the 407
\* of a failed check_auth, host and port from the request target (a port
\* that is no number raises), then create_connection, which the network
\* lets succeed or fail.
ConnectDispatch ==
  /\ pc = "dispatch" /\ command = "CONNECT"
  /\ IF ~check_auth(headers, users)
       THEN /\ replies' = Append(replies, R407)
            /\ pc' = "return"
            /\ UNCHANGED <<connectResult, target, remoteOpen>>
       ELSE LET hp == RPartition(path)
                port == IF hp.tail = <<>> THEN [ok |-> TRUE, val |-> 443]
                        ELSE ParseInt(hp.tail)
            IN IF ~port.ok
                 THEN /\ pc' = "raised"
                      /\ UNCHANGED <<replies, connectResult, target, remoteOpen>>
                 ELSE /\ target' = [host |-> hp.head, port |-> port.val, path |-> <<>>]
                      /\ \E ok \in BOOLEAN :
                           IF ok
                             THEN /\ connectResult' = "ok"
                                  /\ remoteOpen' = TRUE
                                  /\ pc' = "connected"
                                  /\ UNCHANGED replies
                             ELSE /\ connectResult' = "refused"
                                  /\ replies' = Append(replies, ConnectRefusedReply)
                                  /\ pc' = "return"
                                  /\ UNCHANGED remoteOpen
  /\ UNCHANGED <<close_connection, nreq, exitReason, clientOpen, storeVars,
                 decodeVars, revVars, cfgVars, srvVars, reqVars, loopVars, cliVars, tgtVars>>

\* The 200 reply, then both sockets are made non-blocking and the loop starts.
Send200 ==
  /\ pc = "connected"
  /\ replies' = Append(replies, R200)
  /\ pc' = "select"
  /\ idle' = 0
  /\ UNCHANGED <<close_connection, nreq, connectResult, target, exitReason,
                 sockVars, rlist, remaining, storeVars, decodeVars, revVars, cfgVars, srvVars, reqVars,
                 cliVars, tgtVars>>

\* Writing the 200 to a client that is gone raises, outside the try block.
Send200Fails ==
  /\ pc = "connected"
  /\ cliEOF
  /\ pc' = "raised"
  /\ UNCHANGED <<close_connection, nreq, replies, connectResult, target,
                 exitReason, sockVars, loopVars, storeVars, decodeVars, revVars, cfgVars, srvVars, reqVars,
                 cliVars, tgtVars>>

\* A socket is readable when bytes are buffered or its peer has closed.
Readable ==
  (IF cliBuf # <<>> \/ cliEOF THEN {"client"} ELSE {})
    \cup (IF tgtBuf # <<>> \/ tgtEOF THEN {"remote"} ELSE {})

\* One second passes in select() with neither socket readable.
Tick ==
  /\ pc = "select"
  /\ Readable = {}
  /\ idle < TIMEOUT
  /\ idle' = idle + 1
  /\ UNCHANGED <<rlist, remaining, storeVars, decodeVars, revVars, cfgVars, srvVars, reqVars, ctlVars,
                 sockVars, cliVars, tgtVars>>

\* select() returns the readable sockets.
Select ==
  /\ pc = "select"
  /\ Readable # {}
  /\ rlist' = Readable
  /\ pc' = "client"
  /\ UNCHANGED <<close_connection, nreq, replies, connectResult, target,
                 exitReason, sockVars, idle, remaining, storeVars, decodeVars, revVars, cfgVars, srvVars,
                 reqVars, cliVars, tgtVars>>

\* A clause that closes the upstream socket only.
CloseRemoteOnly ==
  /\ remoteOpen' = FALSE
  /\ UNCHANGED clientOpen

\* The finally clause: remote.close(), client_sock.close().
CloseBoth ==
  /\ remoteOpen' = FALSE
  /\ clientOpen' = FALSE

\* A select() called with no timeout: it does not return while neither
\* socket is readable.
SelectNoTimeout ==
  /\ pc = "select"
  /\ Readable = {}
  /\ idle = TIMEOUT
  /\ UNCHANGED <<connVars, storeVars, decodeVars, revVars, cfgVars, srvVars>>

\* select() returns an empty list after TIMEOUT seconds: break, then finally.
SelectTimeout ==
  /\ pc = "select"
  /\ Readable = {}
  /\ idle = TIMEOUT
  /\ exitReason' = "timeout"
  /\ CloseBoth
  /\ pc' = "return"
  /\ UNCHANGED <<close_connection, nreq, replies, connectResult, target,
                 loopVars, storeVars, decodeVars, revVars, cfgVars, srvVars, reqVars, cliVars, tgtVars>>

\* if client_sock in rlist: recv, break on an empty read, else sendall to the
\* target. sendall on the non-blocking socket delivers all of the data, or a
\* part of it and raises; either exit runs the finally clause.
ClientBranch ==
  /\ pc = "client"
  /\ IF "client" \notin rlist
       THEN /\ pc' = "remote"
            /\ UNCHANGED <<exitReason, sockVars, cliBuf, tgtRecv>>
       ELSE LET data == Recv(cliBuf) IN
            IF data = <<>>
              THEN /\ exitReason' = "client_closed"
                   /\ CloseBoth
                   /\ pc' = "return"
                   /\ UNCHANGED <<cliBuf, tgtRecv>>
              ELSE /\ cliBuf' = Drop(cliBuf, Len(data))
                   /\ \E k \in 0..Len(data) :
                        /\ tgtRecv' = tgtRecv \o SubSeq(data, 1, k)
                        /\ IF k = Len(data)
                             THEN /\ pc' = "remote"
                                  /\ UNCHANGED <<exitReason, sockVars>>
                             ELSE /\ exitReason' = "error"
                                  /\ CloseBoth
                                  /\ pc' = "raised"
  /\ UNCHANGED <<close_connection, nreq, replies, connectResult, target,
                 loopVars, cliWritten, cliEOF, cliRecv, tgtWritten, tgtBuf,
                 tgtEOF, upReq, storeVars, decodeVars, revVars, cfgVars, srvVars, reqVars>>

\* if remote in rlist: the same, from the target to the client.
RemoteBranch ==
  /\ pc = "remote"
  /\ IF "remote" \notin rlist
       THEN /\ pc' = "select"
            /\ idle' = 0
            /\ UNCHANGED <<exitReason, sockVars, tgtBuf, cliRecv>>
       ELSE LET data == Recv(tgtBuf) IN
            IF data = <<>>
              THEN /\ exitReason' = "remote_closed"
                   /\ CloseBoth
                   /\ pc' = "return"
                   /\ UNCHANGED <<idle, tgtBuf, cliRecv>>
              ELSE /\ tgtBuf' = Drop(tgtBuf, Len(data))
                   /\ \E k \in 0..Len(data) :
                        /\ cliRecv' = cliRecv \o SubSeq(data, 1, k)
                        /\ IF k = Len(data)
                             THEN /\ pc' = "select"
                                  /\ idle' = 0
                                  /\ UNCHANGED <<exitReason, sockVars>>
                             ELSE /\ exitReason' = "error"
                                  /\ CloseBoth
                                  /\ pc' = "raised"
                                  /\ UNCHANGED idle
  /\ UNCHANGED <<close_connection, nreq, replies, connectResult, target,
                 rlist, remaining, cliWritten, cliBuf, cliEOF, tgtWritten,
                 tgtEOF, tgtRecv, upReq, storeVars, decodeVars, revVars, cfgVars, srvVars, reqVars>>

-----------------------------------------------------------------------------
(* _do_forward                                                             *)

\* Lines 172-176: the target an absolute URI names.
AbsoluteTarget(u) ==
  IF ~u.portOk
    THEN [kind |-> "raise", t |-> NoTarget]
    ELSE [kind |-> "ok",
          t |-> [host |-> u.hostname,
                 port |-> IF u.port # 0 THEN u.port
                          ELSE IF u.scheme = <<104, 116, 116, 112, 115>> (* https *)
                                 THEN 443 ELSE 80,
                 path |-> (IF u.path = <<>> THEN <<47>> ELSE u.path)
                            \o (IF u.query = <<>> THEN <<>> ELSE <<63>> \o u.query)]]

\* Lines 182-185: the target the Host header names.
HostTarget(hp, port, reqPath) ==
  IF ~port.ok
    THEN [kind |-> "raise", t |-> NoTarget]
    ELSE [kind |-> "ok", t |-> [host |-> hp.head, port |-> port.val, path |-> reqPath]]

HostHeaderTarget(hp, reqPath) ==
  HostTarget(hp, IF hp.tail = <<>> THEN [ok |-> TRUE, val |-> 80] ELSE ParseInt(hp.tail),
             reqPath)

TargetOf(u, reqPath, hs) ==
  IF u.scheme # <<>> /\ u.netloc # <<>>
    THEN AbsoluteTarget(u)
    ELSE IF ~HeaderContains(hs, H_HOST) \/ HeaderGet(hs, H_HOST) = <<>>
           THEN [kind |-> "no_host", t |-> NoTarget]
           ELSE HostHeaderTarget(Partition(HeaderGet(hs, H_HOST)), reqPath)

\* Lines 170-185: the target of a forward request. An absolute URI gives
\* host, port (by scheme when absent) and the path with its query; otherwise
\* the Host header gives host and port and the path is the request target.
\*   kind: "ok", "no_host" (the 400 case) or "raise" (ValueError from a port)
ForwardTarget(reqPath, hs) == TargetOf(urlsplit(reqPath), reqPath, hs)

\* _do_forward up to the connection attempt: 407, 400, or create_connection
\* and the 502 of its failure.
ForwardDispatch ==
  /\ pc = "dispatch" /\ command # "CONNECT"
  /\ IF ~check_auth(headers, users)
       THEN /\ replies' = Append(replies, R407)
            /\ pc' = "return"
            /\ UNCHANGED <<connectResult, target, remoteOpen>>
       ELSE LET r == ForwardTarget(path, headers) IN
            IF r.kind = "no_host"
              THEN /\ replies' = Append(replies, ErrorReply(400, "No Host header"))
                   /\ pc' = "return"
                   /\ UNCHANGED <<connectResult, target, remoteOpen>>
              ELSE IF r.kind = "raise"
                THEN /\ pc' = "raised"
                     /\ UNCHANGED <<replies, connectResult, target, remoteOpen>>
                ELSE /\ target' = r.t
                     /\ \E ok \in BOOLEAN :
                          IF ok
                            THEN /\ connectResult' = "ok"
                                 /\ remoteOpen' = TRUE
                                 /\ pc' = "fwd_send"
                                 /\ UNCHANGED replies
                            ELSE /\ connectResult' = "refused"
                                 /\ replies' = Append(replies, ErrorReply(502, "Bad gateway"))
                                 /\ pc' = "return"
                                 /\ UNCHANGED remoteOpen
  /\ UNCHANGED <<close_connection, nreq, exitReason, clientOpen, storeVars,
                 decodeVars, revVars, cfgVars, srvVars, reqVars, loopVars, cliVars, tgtVars>>

\* Lines 194-208: the request line, the header block and the blank line go
\* to the target; then Content-Length, when the message has one, sets the
\* number of body bytes to forward (a value that is no number raises, and
\* the finally clause closes the upstream socket).
ForwardSend ==
  /\ pc = "fwd_send"
  /\ upReq' = [sent |-> TRUE,
               line |-> <<command, target.path, version>>,
               headers |-> ForwardHeaders(headers, target.host)]
  /\ IF HeaderContains(headers, H_CONTENT_LENGTH)
       THEN LET n == ParseInt(HeaderGet(headers, H_CONTENT_LENGTH)) IN
            IF n.ok
              THEN /\ remaining' = n.val
                   /\ pc' = "fwd_body"
                   /\ UNCHANGED remoteOpen
              ELSE /\ pc' = "raised"
                   /\ remoteOpen' = FALSE
                   /\ UNCHANGED remaining
       ELSE /\ pc' = "fwd_relay"
            /\ UNCHANGED <<remaining, remoteOpen>>
  /\ UNCHANGED <<close_connection, nreq, replies, connectResult, target,
                 exitReason, clientOpen, rlist, idle, tgtWritten, tgtBuf, tgtEOF,
                 tgtRecv, storeVars, decodeVars, revVars, cfgVars, srvVars, reqVars, cliVars>>

\* A sendall of the request head fails once the target is gone: the target
\* has a part of the head, and the finally clause closes the upstream socket.
ForwardSendFails ==
  /\ pc = "fwd_send"
  /\ tgtEOF
  /\ \E k \in 0..Len(ForwardHeaders(headers, target.host)) :
       upReq' = [sent |-> FALSE,
                 line |-> <<command, target.path, version>>,
                 headers |-> SubSeq(ForwardHeaders(headers, target.host), 1, k)]
  /\ pc' = "raised"
  /\ remoteOpen' = FALSE
  /\ UNCHANGED <<close_connection, nreq, replies, connectResult, target,
                 exitReason, clientOpen, loopVars, tgtWritten, tgtBuf, tgtEOF,
                 tgtRecv, storeVars, decodeVars, revVars, cfgVars, srvVars, reqVars, cliVars>>

\* rfile.read(n) of a chunk that reads one byte more than it was asked for.
BodyWantGreedy == Min(ChunkSize, remaining) + 1

\* min(8192, remaining)
BodyWant == Min(ChunkSize, remaining)

\* Lines 209-214, one turn of the body loop. rfile.read(n) returns n bytes,
\* or fewer when the client has closed; an empty chunk ends the loop.
ForwardBody ==
  /\ pc = "fwd_body"
  /\ IF remaining <= 0
       THEN /\ pc' = "fwd_relay"
            /\ UNCHANGED <<remaining, remoteOpen, cliBuf, tgtRecv>>
       ELSE /\ Len(cliBuf) >= BodyWant \/ cliEOF
            /\ LET chunk == SubSeq(cliBuf, 1, Min(BodyWant, Len(cliBuf))) IN
               IF chunk = <<>>
                 THEN /\ pc' = "fwd_relay"
                      /\ UNCHANGED <<remaining, remoteOpen, cliBuf, tgtRecv>>
                 ELSE /\ cliBuf' = Drop(cliBuf, Len(chunk))
                      /\ \E k \in 0..Len(chunk) :
                           /\ tgtRecv' = tgtRecv \o SubSeq(chunk, 1, k)
                           /\ IF k = Len(chunk)
                                THEN /\ remaining' = remaining - Len(chunk)
                                     /\ pc' = "fwd_body"
                                     /\ UNCHANGED remoteOpen
                                ELSE /\ pc' = "raised"
                                     /\ remoteOpen' = FALSE
                                     /\ UNCHANGED remaining
  /\ UNCHANGED <<close_connection, nreq, replies, connectResult, target,
                 exitReason, clientOpen, rlist, idle, cliWritten, cliEOF,
                 cliRecv, tgtWritten, tgtBuf, tgtEOF, upReq, storeVars,
                 decodeVars, revVars, cfgVars, srvVars, reqVars>>

\* rfile.read times out: the client sent fewer bytes than Content-Length
\* announced and keeps the connection open.
ForwardBodyTimeout ==
  /\ pc = "fwd_body"
  /\ remaining > 0
  /\ Len(cliBuf) < BodyWant /\ ~cliEOF
  /\ pc' = "raised"
  /\ remoteOpen' = FALSE
  /\ UNCHANGED <<close_connection, nreq, replies, connectResult, target,
                 exitReason, clientOpen, loopVars, storeVars, decodeVars, revVars, cfgVars, srvVars,
                 reqVars, cliVars, tgtVars>>

\* Lines 217-224, one turn of the response loop: recv from the target, stop
\* on an empty read, else sendall to the client, which delivers all of the
\* data or a part of it and raises. Leaving the loop closes the upstream
\* socket.
ForwardRelay ==
  /\ pc = "fwd_relay"
  /\ tgtBuf # <<>> \/ tgtEOF
  /\ LET data == Recv(tgtBuf) IN
     IF data = <<>>
       THEN /\ remoteOpen' = FALSE
            /\ pc' = "return"
            /\ UNCHANGED <<tgtBuf, cliRecv>>
       ELSE /\ tgtBuf' = Drop(tgtBuf, Len(data))
            /\ \E k \in 0..Len(data) :
                 /\ cliRecv' = cliRecv \o SubSeq(data, 1, k)
                 /\ IF k = Len(data)
                      THEN /\ pc' = "fwd_relay"
                           /\ UNCHANGED remoteOpen
                      ELSE /\ pc' = "raised"
                           /\ remoteOpen' = FALSE
  /\ UNCHANGED <<close_connection, nreq, replies, connectResult, target,
                 exitReason, clientOpen, loopVars, cliWritten, cliBuf, cliEOF,
                 tgtWritten, tgtEOF, tgtRecv, upReq, storeVars, decodeVars, revVars, cfgVars, srvVars,
                 reqVars>>

\* A relay that answers a stalled target with a 502 of its own.
ForwardRelayTimeoutReplies ==
  /\ pc = "fwd_relay"
  /\ tgtBuf = <<>> /\ ~tgtEOF
  /\ replies' = Append(replies, ErrorReply(502, "Bad gateway"))
  /\ pc' = "return"
  /\ remoteOpen' = FALSE
  /\ UNCHANGED <<close_connection, nreq, connectResult, target, exitReason,
                 clientOpen, loopVars, storeVars, decodeVars, revVars, cfgVars,
                 srvVars, reqVars, cliVars, tgtVars>>

\* conn.recv times out: the target neither sends nor closes.
ForwardRelayTimeout ==
  /\ pc = "fwd_relay"
  /\ tgtBuf = <<>> /\ ~tgtEOF
  /\ pc' = "raised"
  /\ remoteOpen' = FALSE
  /\ UNCHANGED <<close_connection, nreq, replies, connectResult, target,
                 exitReason, clientOpen, loopVars, storeVars, decodeVars, revVars, cfgVars, srvVars,
                 reqVars, cliVars, tgtVars>>

-----------------------------------------------------------------------------
(* The reverse relay (src/proxy.py)                                        *)

\* Response header names the relay does not pass on.
REVERSE_HOP_BY_HOP ==
  {<<99, 111, 110, 110, 101, 99, 116, 105, 111, 110>> (* connection *),
   <<107, 101, 101, 112, 45, 97, 108, 105, 118, 101>> (* keep-alive *),
   <<112, 114, 111, 120, 121, 45, 97, 117, 116, 104, 101, 110, 116, 105, 99, 97, 116, 101>> (* proxy-authenticate *),
   <<112, 114, 111, 120, 121, 45, 97, 117, 116, 104, 111, 114, 105, 122, 97, 116, 105, 111, 110>> (* proxy-authorization *),
   <<116, 101>> (* te *),
   <<116, 114, 97, 105, 108, 101, 114, 115>> (* trailers *),
   <<116, 114, 97, 110, 115, 102, 101, 114, 45, 101, 110, 99, 111, 100, 105, 110, 103>> (* transfer-encoding *),
   <<117, 112, 103, 114, 97, 100, 101>> (* upgrade *),
   <<99, 111, 110, 116, 101, 110, 116, 45, 108, 101, 110, 103, 116, 104>> (* content-length *)}

SMALL_RESPONSE_THRESHOLD == 1048576

R_HOST == <<104, 111, 115, 116>> (* host *)
R_ACCEPT_ENCODING == <<97, 99, 99, 101, 112, 116, 45, 101, 110, 99, 111, 100, 105, 110, 103>> (* accept-encoding *)
R_CONTENT_TYPE == <<99, 111, 110, 116, 101, 110, 116, 45, 116, 121, 112, 101>> (* content-type *)
UPSTREAM_HOST == <<97, 112, 105, 46, 111, 112, 101, 110, 97, 105, 46, 99, 111, 109>> (* api.openai.com *)
V1_PREFIX == <<118, 49, 47>> (* v1/ *)

\* Lines 31-34: the caller's headers with host forced and accept-encoding
\* removed.
UpstreamRequestHeaders(hs) ==
  DictPop(DictSet(DictOf(hs, <<>>), R_HOST, UPSTREAM_HOST), R_ACCEPT_ENCODING)

\* Lines 52-54: upstream.headers.items() yields lower-case names.
ResponseHeaders(hs) ==
  DictOf(SelectSeq([i \in 1..Len(hs) |-> <<Lower(hs[i][1]), hs[i][2]>>],
                   LAMBDA f : f[1] \notin REVERSE_HOP_BY_HOP),
         <<>>)

\* Lines 67-68: content-type defaults to application/octet-stream.
WithContentType(d) ==
  IF DictHas(d, R_CONTENT_TYPE) THEN d
  ELSE DictSet(d, R_CONTENT_TYPE, <<97, 112, 112, 108, 105, 99, 97, 116, 105, 111, 110, 47, 111, 99, 116, 101, 116, 45, 115, 116, 114, 101, 97, 109>> (* application/octet-stream *))

\* Lines 57-63: the response has a Content-Length that is a number of at
\* most SMALL_RESPONSE_THRESHOLD.
IsSmall(hs) ==
  /\ HeaderContains(hs, H_CONTENT_LENGTH)
  /\ ParseInt(HeaderGet(hs, H_CONTENT_LENGTH)).ok
  /\ ParseInt(HeaderGet(hs, H_CONTENT_LENGTH)).val <= SMALL_RESPONSE_THRESHOLD

\* Lines 27-45: a path outside v1/ is answered 404; otherwise the request
\* goes upstream, and a failure to connect is answered 502.
ProxyRequest ==
  /\ rpc = "start"
  /\ IF ~IsPrefix(V1_PREFIX, rpath)
       THEN /\ callerStatus' = 404
            /\ rpc' = "done"
            /\ UNCHANGED <<upOpen, upSent>>
       ELSE /\ upSent' = UpstreamRequestHeaders(rheaders)
            /\ \E ok \in BOOLEAN :
                 IF ok
                   THEN /\ upOpen' = TRUE
                        /\ rpc' = "headers"
                        /\ UNCHANGED callerStatus
                   ELSE /\ callerStatus' = 502
                        /\ rpc' = "done"
                        /\ UNCHANGED upOpen
  /\ UNCHANGED <<rpath, rheaders, upHeaders, upBody, upPos, callerHeaders,
                 callerBody, storeVars, decodeVars, connVars, cfgVars, srvVars>>

\* Lines 63-69: a small response is read whole with aread() and returned as
\* one Response; leaving the with blocks closes the upstream response.
ProxyBuffered ==
  /\ rpc = "headers"
  /\ IsSmall(upHeaders)
  /\ upPos' = Len(upBody)
  /\ callerStatus' = 200
  /\ callerHeaders' = WithContentType(ResponseHeaders(upHeaders))
  /\ callerBody' = <<upBody>>
  /\ upOpen' = FALSE
  /\ rpc' = "done"
  /\ UNCHANGED <<rpath, rheaders, upHeaders, upBody, upSent, storeVars,
                 decodeVars, connVars, cfgVars, srvVars>>

\* Line 90: return StreamingResponse(gen(), ...) from inside the with
\* blocks. The return leaves them, which closes the upstream response; the
\* generator has not run yet.
ProxyStream ==
  /\ rpc = "headers"
  /\ ~IsSmall(upHeaders)
  /\ callerStatus' = 200
  /\ callerHeaders' = ResponseHeaders(upHeaders)
  /\ upOpen' = FALSE
  /\ rpc' = "gen"
  /\ UNCHANGED <<rpath, rheaders, upHeaders, upBody, upPos, upSent, callerBody,
                 storeVars, decodeVars, connVars, cfgVars, srvVars>>

\* Lines 73-88, one turn of gen(): aiter_bytes() on a closed response
\* raises StreamClosed, which ends the generator; on an open one it yields
\* the next chunk, and at the end of the body the response is closed.
Gen ==
  /\ rpc = "gen"
  /\ IF ~upOpen
       THEN /\ rpc' = "done"
            /\ UNCHANGED <<upOpen, upPos, callerBody>>
       ELSE IF upPos < Len(upBody)
         THEN /\ callerBody' = Append(callerBody, <<upBody[upPos + 1]>>)
              /\ upPos' = upPos + 1
              /\ UNCHANGED <<rpc, upOpen>>
         ELSE /\ upOpen' = FALSE
              /\ rpc' = "done"
              /\ UNCHANGED <<upPos, callerBody>>
  /\ UNCHANGED <<rpath, rheaders, upHeaders, upBody, upSent, callerStatus,
                 callerHeaders, storeVars, decodeVars, connVars, cfgVars, srvVars>>

\* Requests to the relay and upstream responses.
MaxChunks == 2

RPaths == {<<118, 49, 47, 120>> (* v1/x *), <<120>> (* x *)}

CallerHeaders ==
  {<<>>,
   <<<<R_HOST, <<104>> (* h *)>>>>,
   <<<<R_ACCEPT_ENCODING, <<103, 122, 105, 112>> (* gzip *)>>, <<<<120, 45, 97>> (* x-a *), <<120>>>>>>}

\* Content-Length values: small ones, the threshold, one above it, and
\* one that is no number.
ClenValues ==
  {<<48>> (* 0 *), <<50>> (* 2 *), <<49, 48, 52, 56, 53, 55, 54>> (* 1048576 *), <<49, 48, 52, 56, 53, 55, 55>> (* 1048577 *), <<120>> (* x *)}

ClenFields ==
  {<<>>} \cup {<<<<H_CONTENT_LENGTH, v>>>> : v \in ClenValues}
    \cup {<<<<Lower(H_CONTENT_LENGTH), <<50>> (* 2 *)>>>>}

OtherFields ==
  {<<>>,
   <<<<<<67, 111, 110, 116, 101, 110, 116, 45, 84, 121, 112, 101>> (* Content-Type *), <<116>> (* t *)>>>>,
   <<<<H_CONNECTION, <<99, 108, 111, 115, 101>> (* close *)>>, <<<<88, 45, 66>> (* X-B *), <<120>>>>>>}

UpstreamHeaders == {c \o o : c \in ClenFields, o \in OtherFields}

\* The k-th chunk of an upstream body.
Chunk(k) == 200 + k

UpstreamBodies == {[i \in 1..n |-> Chunk(i)] : n \in 0..MaxChunks}

InitReverse ==
  /\ rpc = "start"
  /\ rpath \in RPaths
  /\ rheaders \in CallerHeaders
  /\ upHeaders \in UpstreamHeaders
  /\ upBody \in UpstreamBodies
  /\ upOpen = FALSE
  /\ upPos = 0
  /\ upSent = <<>>
  /\ callerStatus = 0
  /\ callerHeaders = <<>>
  /\ callerBody = <<>>

RevOff ==
  /\ rpc = "off"
  /\ rpath = <<>> /\ rheaders = <<>> /\ upHeaders = <<>> /\ upBody = <<>>
  /\ upOpen = FALSE /\ upPos = 0 /\ upSent = <<>>
  /\ callerStatus = 0 /\ callerHeaders = <<>> /\ callerBody = <<>>

-----------------------------------------------------------------------------
(* Requests                                                                *)

Methods == {"CONNECT", "GET", "POST", "PUT", "DELETE", "OPTIONS", "HEAD", "PATCH"}

Versions == {"HTTP/1.0", "HTTP/1.1"}

\* The one provisioned account: user "a", password "p".
GoodAuth == <<66, 97, 115, 105, 99, 32, 89, 84, 112, 119>> (* Basic YTpw *)
WrongPassword == <<66, 97, 115, 105, 99, 32, 89, 84, 112, 120>> (* Basic YTpx *)

\* Header values the gate must reject: wrong password, unknown user, no
\* colon, empty user name, another scheme, one token only, broken base64.
BadAuthValues ==
  {WrongPassword,
   <<66, 97, 115, 105, 99, 32, 101, 106, 112, 119>> (* Basic ejpw *),
   <<66, 97, 115, 105, 99, 32, 89, 88, 65, 61>> (* Basic YXA= *),
   <<66, 97, 115, 105, 99, 32, 79, 110, 65, 61>> (* Basic OnA= *),
   <<66, 101, 97, 114, 101, 114, 32, 89, 84, 112, 119>> (* Bearer YTpw *),
   <<66, 97, 115, 105, 99>> (* Basic *),
   <<66, 97, 115, 105, 99, 32, 89, 84, 112>> (* Basic YTp *)}

\* Header values the gate must accept, the scheme in either letter case.
GoodAuthValues == {GoodAuth, <<98, 97, 115, 105, 99, 32, 89, 84, 112, 119>> (* basic YTpw *)}

PA(v) == <<H_PROXY_AUTHORIZATION, v>>
LowerPA(v) == <<Lower(H_PROXY_AUTHORIZATION), v>>

\* Header lists without acceptable credentials; get() reads the first
\* Proxy-Authorization field only.
RejectedAuth ==
  {<<>>, <<LowerPA(WrongPassword)>>, <<PA(WrongPassword), PA(GoodAuth)>>}
    \cup {<<PA(v)>> : v \in BadAuthValues}

AcceptedAuth ==
  {<<PA(v)>> : v \in GoodAuthValues}
    \cup {<<LowerPA(GoodAuth)>>, <<PA(GoodAuth), PA(WrongPassword)>>}

HostH == <<104>> (* h *)

\* The decimal text of a number below 10.
Digit(n) == <<48 + n>>

UriAbsolute == <<104, 116, 116, 112, 58, 47, 47, 104, 47, 112, 63, 113>> (* http://h/p?q *)
HostPort443 == <<104, 58, 52, 52, 51>> (* h:443 *)

DefaultTarget(c) == IF c = "CONNECT" THEN HostPort443 ELSE UriAbsolute

Req(c, v, p, h) == [command |-> c, version |-> v, path |-> p, headers |-> h]

\* Every method with every rejected header list.
RejectProbes ==
  {Req(c, "HTTP/1.1", DefaultTarget(c), auth \o <<<<H_HOST, HostH>>>>) :
     c \in Methods, auth \in RejectedAuth}

\* Every method with the account's credentials; GET with each accepted
\* spelling of them.
AcceptProbes ==
  {Req(c, "HTTP/1.1", DefaultTarget(c), <<PA(GoodAuth), <<H_HOST, HostH>>>>) :
     c \in Methods}
    \cup {Req("GET", "HTTP/1.1", UriAbsolute, auth \o <<<<H_HOST, HostH>>>>) :
            auth \in AcceptedAuth}

\* Authenticated requests to other targets: a CONNECT target with no port,
\* an empty port, a port that is no number; forward targets in origin form
\* with and without a Host header, and absolute ones with a port or https.
TargetProbes ==
  {Req("CONNECT", "HTTP/1.1", p, <<PA(GoodAuth)>>) :
     p \in {<<104>> (* h *), <<104, 58, 120>> (* h:x *), <<104, 58>> (* h: *)}}
    \cup {Req("GET", "HTTP/1.1", <<47, 112>> (* /p *), <<PA(GoodAuth)>> \o h) :
            h \in {<<>>, <<<<H_HOST, HostH>>>>, <<<<H_HOST, <<104, 58, 56, 49>> (* h:81 *)>>>>,
                   <<<<H_HOST, <<104, 58, 120>> (* h:x *)>>>>}}
    \cup {Req("GET", "HTTP/1.1", p, <<PA(GoodAuth)>>) :
            p \in {<<104, 116, 116, 112, 58, 47, 47, 104, 58, 56, 49>> (* http://h:81 *), <<104, 116, 116, 112, 115, 58, 47, 47, 104, 47, 112>> (* https://h/p *), <<104, 116, 116, 112, 58, 47, 47, 104, 58, 120, 47, 112>> (* http://h:x/p *)}}

\* Authenticated requests that announce a body.
BodyProbes ==
  {Req("POST", "HTTP/1.1", UriAbsolute,
       <<PA(GoodAuth), <<H_HOST, HostH>>, <<H_CONTENT_LENGTH, Digit(n)>>>>) :
     n \in 0..(MaxData + 1)}
    \cup {Req("POST", "HTTP/1.1", UriAbsolute,
              <<PA(GoodAuth), <<Lower(H_CONTENT_LENGTH), Digit(1)>>>>),
          Req("POST", "HTTP/1.1", UriAbsolute,
              <<PA(GoodAuth), <<H_CONTENT_LENGTH, <<120>> (* x *)>>>>)}

\* Requests that ask to keep the connection open.
KeepAliveProbes ==
  {Req(r[1], v, DefaultTarget(r[1]),
       r[2] \o <<<<H_HOST, HostH>>, <<H_CONNECTION, <<107, 101, 101, 112, 45, 97, 108, 105, 118, 101>> (* keep-alive *)>>>>) :
     r \in {<<"GET", <<>>>>, <<"GET", <<PA(GoodAuth)>>>>, <<"CONNECT", <<>>>>,
            <<"CONNECT", <<PA(WrongPassword)>>>>},
     v \in Versions}

Requests == RejectProbes \cup AcceptProbes \cup TargetProbes \cup BodyProbes \cup KeepAliveProbes

\* Header fields a client may add to a forward request: every hop-by-hop
\* name in some letter case, Proxy-Authorization again, and fields the
\* proxy has to pass on, one of them with two values and Host in two
\* letter cases.
MaxHdrs == 2

ExtraFields ==
  {<<<<67, 111, 110, 110, 101, 99, 116, 105, 111, 110>> (* Connection *), <<120>>>>,
   <<<<99, 111, 110, 110, 101, 99, 116, 105, 111, 110>> (* connection *), <<120>>>>,
   <<<<75, 69, 69, 80, 45, 65, 76, 73, 86, 69>> (* KEEP-ALIVE *), <<120>>>>,
   <<<<80, 114, 111, 120, 121, 45, 65, 117, 116, 104, 101, 110, 116, 105, 99, 97, 116, 101>> (* Proxy-Authenticate *), <<120>>>>,
   <<<<112, 114, 111, 120, 121, 45, 97, 117, 116, 104, 111, 114, 105, 122, 97, 116, 105, 111, 110>> (* proxy-authorization *), <<120>>>>,
   <<<<80, 82, 79, 88, 89, 45, 65, 85, 84, 72, 79, 82, 73, 90, 65, 84, 73, 79, 78>> (* PROXY-AUTHORIZATION *), <<120>>>>,
   <<<<84, 69>> (* TE *), <<120>>>>,
   <<<<84, 114, 97, 105, 108, 101, 114>> (* Trailer *), <<120>>>>,
   <<<<116, 114, 97, 110, 115, 102, 101, 114, 45, 69, 110, 99, 111, 100, 105, 110, 103>> (* transfer-Encoding *), <<120>>>>,
   <<<<85, 112, 103, 114, 97, 100, 101>> (* Upgrade *), <<120>>>>,
   <<<<88, 45, 65>> (* X-A *), <<120>>>>,
   <<<<88, 45, 65>> (* X-A *), <<121>>>>,
   <<H_HOST, HostH>>,
   <<Lower(H_HOST), HostH>>,
   <<H_CONTENT_LENGTH, Digit(1)>>}

\* Authenticated forward requests with up to MaxHdrs of these fields, in any
\* order and with repetitions, after the credentials.
ForwardRequests ==
  {Req("GET", "HTTP/1.1", UriAbsolute, <<PA(GoodAuth)>> \o extra) :
     extra \in SeqsUpTo(ExtraFields, MaxHdrs)}

\* The store the proxy runs against: main() has run init_db, and the
\* provisioning command has created the account.
ProvisionedStore ==
  /\ users = create_user(init_db(EmptyTable), <<97>> (* a *), <<112>> (* p *), "s1")
  /\ hist = <<[user |-> <<97>> (* a *), pw |-> <<112>> (* p *)]>>
  /\ vres = NoCall

-----------------------------------------------------------------------------
(* Configuration: the location of the credential store                     *)

\* Database files: the built-in location (users.db next to the script) and
\* another one an operator may configure with --db.
DB_PATH == "users.db"
Locations == {DB_PATH, "other.db"}

\* A location where no database file has been created.
NoDb == [exists |-> FALSE, table |-> EmptyTable]

\* init_db(path): creates the file and the table when they are missing.
init_db_at(db) == [exists |-> TRUE, table |-> init_db(db.table)]

\* The path verify_user reads when check_auth calls verify_user(user, pw):
\* its default argument, which is the value DB_PATH had when the def
\* statement ran. main's later assignment to the global does not change it.
verify_path(configured) == DB_PATH

\* The path run_server's init_db() call opens: its default argument too.
run_server_path(configured) == DB_PATH

NotRunning == "not running"

CfgOff == dbs = [l \in Locations |-> NoDb] /\ db_path = NotRunning /\ gate = NoCall

\* main() with --db l --add-user u: DB_PATH = args.db, init_db(DB_PATH),
\* create_user(u, pw, DB_PATH). A run of its own, at any time.
MainAddUser ==
  /\ \E l \in Locations, u \in Usernames, p \in Passwords :
       dbs' = [dbs EXCEPT ![l] = [exists |-> TRUE,
                                 table |-> create_user(init_db_at(dbs[l]).table,
                                                       u, p, "s1")]]
  /\ gate' = NoCall
  /\ UNCHANGED <<db_path, storeVars, decodeVars, connVars, revVars, srvVars>>

\* main() with --db l and no --add-user: DB_PATH = args.db, init_db(DB_PATH),
\* then run_server, whose init_db() opens the default path.
MainRunServer ==
  /\ db_path = NotRunning
  /\ \E l \in Locations :
       /\ db_path' = l
       /\ dbs' = [x \in Locations |->
                    IF x = l \/ x = run_server_path(l)
                      THEN init_db_at(dbs[x]) ELSE dbs[x]]
  /\ gate' = NoCall
  /\ UNCHANGED <<storeVars, decodeVars, connVars, revVars, srvVars>>

\* check_auth of the running proxy on decoded credentials (u, p).
GateCheck ==
  /\ db_path # NotRunning
  /\ \E u \in Usernames \cup {Stranger}, p \in Passwords :
       gate' = [called |-> TRUE, user |-> u, pw |-> p,
                result |-> verify_user(dbs[verify_path(db_path)].table, u, p)]
  /\ UNCHANGED <<dbs, db_path, storeVars, decodeVars, connVars, revVars, srvVars>>

-----------------------------------------------------------------------------
(* The listening server: serve_forever and the handler threads             *)

MaxConns == 3
Conns == 1..MaxConns

\* The accept loop waits in its selector for the next connection.
InSelect == [at |-> "select", conn |-> 0]

\* The accept loop is inside accept() doing the TLS handshake with c.
InHandshake(c) == [at |-> "handshake", conn |-> c]

\* The accept loop runs the handler of c itself.
InHandler(c) == [at |-> "handler", conn |-> c]

SrvOff ==
  /\ tls_offload = TRUE
  /\ accepting = InSelect
  /\ backlog = {}
  /\ threads = [c \in Conns |-> "none"]

\* run_server: the listening socket is plain (--tls-offload) or wrapped by
\* the TLS context; no connection has been made yet.
InitServer ==
  /\ tls_offload \in BOOLEAN
  /\ accepting = InSelect
  /\ backlog = {}
  /\ threads = [c \in Conns |-> "none"]

\* HTTPServer.process_request without the mixin: finish_request runs in the
\* accept loop, which comes back only when the handler is done.
process_request_inline(c) ==
  /\ threads' = [threads EXCEPT ![c] = "running"]
  /\ accepting' = InHandler(c)

\* ThreadingMixIn.process_request: a new daemon thread runs the handler, and
\* the accept loop goes back to its selector at once.
process_request(c) ==
  /\ threads' = [threads EXCEPT ![c] = "running"]
  /\ accepting' = InSelect

\* A client connects: the kernel queues the connection.
ClientConnect ==
  /\ \E c \in Conns :
       /\ threads[c] = "none" /\ c \notin backlog /\ accepting.conn # c
       /\ backlog' = backlog \cup {c}
  /\ UNCHANGED <<tls_offload, accepting, threads, storeVars, decodeVars, connVars,
                 revVars, cfgVars>>

\* serve_forever: the selector reports the listening socket readable and
\* get_request calls accept(). On the plain socket the connection goes to
\* process_request; on the wrapped socket accept() first does the handshake.
Accept ==
  /\ accepting = InSelect
  /\ \E c \in backlog :
       /\ backlog' = backlog \ {c}
       /\ IF tls_offload
            THEN process_request(c)
            ELSE accepting' = InHandshake(c) /\ UNCHANGED threads
  /\ UNCHANGED <<tls_offload, storeVars, decodeVars, connVars, revVars, cfgVars>>

\* The client completes the TLS handshake: accept() returns.
HandshakeDone ==
  /\ accepting.at = "handshake"
  /\ process_request(accepting.conn)
  /\ UNCHANGED <<tls_offload, backlog, storeVars, decodeVars, connVars, revVars,
                 cfgVars>>

\* The handshake fails: accept() raises OSError, which the server ignores.
HandshakeFails ==
  /\ accepting.at = "handshake"
  /\ threads' = [threads EXCEPT ![accepting.conn] = "done"]
  /\ accepting' = InSelect
  /\ UNCHANGED <<tls_offload, backlog, storeVars, decodeVars, connVars, revVars,
                 cfgVars>>

\* A handler thread answers its request with a status of its own (407, 400,
\* 502) and finishes.
ThreadReply ==
  /\ \E c \in Conns :
       /\ threads[c] = "running"
       /\ threads' = [threads EXCEPT ![c] = "done"]
  /\ UNCHANGED <<tls_offload, accepting, backlog, storeVars, decodeVars, connVars,
                 revVars, cfgVars>>

\* A handler thread enters the tunnel loop or the forward relay, where it
\* waits on its peers for as long as they let it.
ThreadRelay ==
  /\ \E c \in Conns :
       /\ threads[c] = "running"
       /\ threads' = [threads EXCEPT ![c] = "relaying"]
  /\ UNCHANGED <<tls_offload, accepting, backlog, storeVars, decodeVars, connVars,
                 revVars, cfgVars>>

\* A relay ends: a peer closed, a timeout or an error.
ThreadRelayEnds ==
  /\ \E c \in Conns :
       /\ threads[c] = "relaying"
       /\ threads' = [threads EXCEPT ![c] = "done"]
  /\ UNCHANGED <<tls_offload, accepting, backlog, storeVars, decodeVars, connVars,
                 revVars, cfgVars>>

-----------------------------------------------------------------------------
(* Specifications                                                          *)

StoreOff == users = EmptyTable /\ hist = <<>> /\ vres = NoCall
DecodeOff == hv = <<>> /\ parsed = NotParsed
ConnOff ==
  /\ command = "GET" /\ version = "HTTP/1.0" /\ path = <<>> /\ headers = <<>>
  /\ ConnStart

\* Any request of the bounded set, read and parsed on a fresh connection.
Init ==
  /\ ProvisionedStore
  /\ DecodeOff
  /\ \E r \in Requests :
       /\ command = r.command
       /\ version = r.version
       /\ path = r.path
       /\ headers = r.headers
  /\ ConnStart
  /\ RevOff
  /\ CfgOff
  /\ SrvOff

Next ==
  \/ ConnectDispatch
  \/ Send200
  \/ Send200Fails
  \/ Tick
  \/ Select
  \/ SelectTimeout
  \/ ClientBranch
  \/ RemoteBranch
  \/ ForwardDispatch
  \/ ForwardSend
  \/ ForwardSendFails
  \/ ForwardBody
  \/ ForwardBodyTimeout
  \/ ForwardRelay
  \/ ForwardRelayTimeout
  \/ HandlerFinish
  \/ CollectRemote
  \/ ClientWrite
  \/ ClientClose
  \/ TargetWrite
  \/ TargetClose

Spec == Init /\ [][Next]_vars

\* The gate before every outbound action: each method without acceptable
\* credentials, to well-formed targets and to malformed or missing ones (a
\* CONNECT target with no port, with a port that is no number, with no host;
\* a forward target in origin form with no Host header, an absolute one
\* with a port that is no number, an asterisk), and the same requests with
\* the account's credentials. The peers send no data here.
GateTargets(c) ==
  IF c = "CONNECT"
    THEN {HostPort443, <<104>> (* h *), <<104, 58, 120>> (* h:x *), <<58>> (* : *)}
    ELSE {UriAbsolute, <<47, 112>> (* /p *), <<104, 116, 116, 112, 58, 47, 47, 104, 58, 120, 47, 112>> (* http://h:x/p *), <<42>> (* * *)}

GateRequests ==
  {Req(c, "HTTP/1.1", p, auth) :
     c \in Methods, p \in UNION {GateTargets(m) : m \in Methods},
     auth \in RejectedAuth \cup {<<PA(GoodAuth)>>}}
    \cup {Req("POST", "HTTP/1.1", UriAbsolute,
              <<PA(GoodAuth), <<H_CONTENT_LENGTH, Digit(1)>>>>)}

InitGate ==
  /\ ProvisionedStore
  /\ DecodeOff
  /\ \E r \in GateRequests :
       /\ r.path \in GateTargets(r.command)
       /\ command = r.command
       /\ version = r.version
       /\ path = r.path
       /\ headers = r.headers
  /\ ConnStart
  /\ RevOff
  /\ CfgOff
  /\ SrvOff

NextGate ==
  \/ ConnectDispatch
  \/ Send200
  \/ Send200Fails
  \/ Tick
  \/ Select
  \/ SelectTimeout
  \/ ClientBranch
  \/ RemoteBranch
  \/ ForwardDispatch
  \/ ForwardSend
  \/ ForwardSendFails
  \/ ForwardBody
  \/ ForwardBodyTimeout
  \/ ForwardRelay
  \/ ForwardRelayTimeout
  \/ HandlerFinish
  \/ CollectRemote
  \/ ClientClose
  \/ TargetClose

SpecGate == InitGate /\ [][NextGate]_vars

\* Connections on which a peer can stall at every wait of the handler: an
\* authenticated tunnel, a forward request with no body and one that
\* announces a body of ChunkSize bytes.
StallRequests ==
  {Req("CONNECT", "HTTP/1.1", HostPort443, <<PA(GoodAuth)>>),
   Req("GET", "HTTP/1.1", UriAbsolute, <<PA(GoodAuth)>>),
   Req("POST", "HTTP/1.1", UriAbsolute,
       <<PA(GoodAuth), <<H_CONTENT_LENGTH, Digit(ChunkSize)>>>>)}

InitStall ==
  /\ ProvisionedStore
  /\ DecodeOff
  /\ \E r \in StallRequests :
       /\ command = r.command
       /\ version = r.version
       /\ path = r.path
       /\ headers = r.headers
  /\ ConnStart
  /\ RevOff
  /\ CfgOff
  /\ SrvOff

\* The handler method is called: the handler leaves the dispatch position,
\* with a reply, an exception or an upstream connection attempt made. Every
\* step of ConnectDispatch and of ForwardDispatch is such a step, and one of
\* the two is possible wherever the position is dispatch.
MethodCalled ==
  /\ pc = "dispatch"
  /\ pc' \in {"return", "raised", "connected", "fwd_send"}

\* The steps of the handler thread once its method runs, as opposed to
\* those of the peers and of the garbage collector.
HandlerStep ==
  \/ Send200
  \/ Send200Fails
  \/ Tick
  \/ Select
  \/ SelectTimeout
  \/ ClientBranch
  \/ RemoteBranch
  \/ ForwardSend
  \/ ForwardSendFails
  \/ ForwardBody
  \/ ForwardBodyTimeout
  \/ ForwardRelay
  \/ ForwardRelayTimeout
  \/ HandlerFinish

\* The handler runs in a thread of its own, which the operating system keeps
\* scheduling, and time passes while it waits: a step of the handler that
\* stays possible is taken. Nothing is assumed of the peers.
SpecFair ==
  InitStall /\ [][Next]_vars /\ WF_pc(MethodCalled) /\ WF_vars(HandlerStep)

\* The forward relay alone, on requests with many header combinations. The
\* header block goes upstream before any body byte is read, so here the
\* peers send no data: they stay silent or close.
InitForward ==
  /\ ProvisionedStore
  /\ DecodeOff
  /\ \E r \in ForwardRequests :
       /\ command = r.command
       /\ version = r.version
       /\ path = r.path
       /\ headers = r.headers
  /\ ConnStart
  /\ RevOff
  /\ CfgOff
  /\ SrvOff

NextForward ==
  \/ ForwardDispatch
  \/ ForwardSend
  \/ ForwardSendFails
  \/ ForwardBody
  \/ ForwardBodyTimeout
  \/ ForwardRelay
  \/ ForwardRelayTimeout
  \/ HandlerFinish
  \/ ClientClose
  \/ TargetClose

SpecForward == InitForward /\ [][NextForward]_vars

InitStoreSpec == InitStore /\ DecodeOff /\ ConnOff /\ RevOff /\ CfgOff /\ SrvOff
NextStore == InitDb \/ CreateUser \/ VerifyUser
SpecStore == InitStoreSpec /\ [][NextStore]_vars

InitDecodeSpec == InitDecode /\ StoreOff /\ ConnOff /\ RevOff /\ CfgOff /\ SrvOff
NextDecode == Decode
SpecDecode == InitDecodeSpec /\ [][NextDecode]_vars

\* One request to the reverse relay.
InitReverseSpec == InitReverse /\ StoreOff /\ DecodeOff /\ ConnOff /\ CfgOff /\ SrvOff
NextReverse == ProxyRequest \/ ProxyBuffered \/ ProxyStream \/ Gen
SpecReverse == InitReverseSpec /\ [][NextReverse]_vars

\* Provisioning runs and one proxy run, over the database files.
InitConfigSpec == CfgOff /\ StoreOff /\ DecodeOff /\ ConnOff /\ RevOff /\ SrvOff
NextConfig == MainAddUser \/ MainRunServer \/ GateCheck
SpecConfig == InitConfigSpec /\ [][NextConfig]_vars

\* The accept loop and the handler threads of up to MaxConns connections.
InitServerSpec == InitServer /\ StoreOff /\ DecodeOff /\ ConnOff /\ RevOff /\ CfgOff
NextServer ==
  \/ ClientConnect
  \/ Accept
  \/ HandshakeDone
  \/ HandshakeFails
  \/ ThreadReply
  \/ ThreadRelay
  \/ ThreadRelayEnds
SpecServer == InitServerSpec /\ [][NextServer]_vars

-----------------------------------------------------------------------------
(* Claims                                                                  *)

Range(s) == {s[i] : i \in 1..Len(s)}

\* The index in hist of the latest create_user call for u, 0 if there is none.
LastProvision(u) ==
  IF \E i \in 1..Len(hist) : hist[i].user = u
    THEN CHOOSE i \in 1..Len(hist) :
           hist[i].user = u /\ \A j \in (i + 1)..Len(hist) : hist[j].user # u
    ELSE 0

Accepted(u, p) == LastProvision(u) # 0 /\ hist[LastProvision(u)].pw = p

\* C2: after any sequence of init_db and create_user calls, verify_user(u, p)
\* is true exactly when the latest create_user for u used password p: false
\* for a username never provisioned and for an overwritten password, and a
\* provisioning of one username leaves every other username's answers alone.
C2_VerifyIffLatestPassword ==
  /\ \A u \in Usernames \cup {Stranger}, p \in Passwords :
       verify_user(users, u, p) = Accepted(u, p)
  /\ vres.called => vres.result = Accepted(vres.user, vres.pw)

\* A verify_user call that rejected a password an earlier, since overwritten,
\* create_user of the same username had set.
C2_Witness ==
  /\ vres.called
  /\ ~vres.result
  /\ \E i \in 1..Len(hist) :
       /\ hist[i].user = vres.user
       /\ hist[i].pw = vres.pw
       /\ i < LastProvision(vres.user)

\* C9: parse_basic_auth returns, for exactly two whitespace-separated tokens
\* whose first is "basic" in any letter case and whose second decodes to a
\* text holding a colon, the text before the first colon and everything after
\* it; for every other header value it returns no credentials.
C9_DecoderContract ==
  parsed.done =>
    LET toks == Split(hv)
        raw == b64decode(toks[2])
        text == Utf8Ignore(raw.bytes, 1)
    IN IF /\ Len(toks) = 2
          /\ Lower(toks[1]) = <<98, 97, 115, 105, 99>> (* basic *)
          /\ raw.ok
          /\ COLON \in Range(text)
         THEN /\ parsed.res.ok
              /\ parsed.res.user \o <<COLON>> \o parsed.res.pw = text
              /\ COLON \notin Range(parsed.res.user)
         ELSE parsed.res = NoCreds

\* A decoded password that itself holds a colon.
C9_Witness ==
  /\ parsed.done
  /\ parsed.res.ok
  /\ COLON \in Range(parsed.res.pw)

-----------------------------------------------------------------------------
(* Claims about the handler                                                *)

\* The request carries no credentials the store accepts: no
\* Proxy-Authorization field, one the decoder cannot read, or one that names
\* an account and password verify_user rejects.
Unauthorized ==
  \/ ~HeaderContains(headers, H_PROXY_AUTHORIZATION)
  \/ LET c == parse_basic_auth(HeaderGet(headers, H_PROXY_AUTHORIZATION))
     IN ~c.ok \/ ~verify_user(users, c.user, c.pw)

\* C1: whatever the method, a request whose Proxy-Authorization header is
\* missing, malformed or rejected by verify_user is answered by exactly one
\* reply, a 407 with a Proxy-Authenticate: Basic realm header; the handler
\* then returns with close_connection set, no second request is read on the
\* connection, and the connection ends with the client socket closed.
C1_AuthRequired ==
  Unauthorized =>
    /\ nreq = 1
    /\ pc \in {"dispatch", "return", "closed"}
    /\ pc = "dispatch" => replies = <<>>
    /\ pc # "dispatch" =>
         /\ Len(replies) = 1
         /\ replies[1].code = 407
         /\ "Proxy-Authenticate: Basic realm=\"SecureProxy\"" \in Range(replies[1].hdrs)
         /\ close_connection
    /\ pc = "closed" => ~clientOpen

\* A CONNECT under HTTP/1.1 that asked for keep-alive with a wrong password,
\* answered 407 and closed.
C1_Witness ==
  /\ command = "CONNECT"
  /\ version = "HTTP/1.1"
  /\ HeaderContains(headers, H_CONNECTION)
  /\ HeaderContains(headers, H_PROXY_AUTHORIZATION)
  /\ Unauthorized
  /\ pc = "closed"
  /\ ~clientOpen
  /\ replies = <<R407>>

\* C3: an authenticated CONNECT whose target was reached is answered 200
\* Connection Established (unless the client is gone before the reply), and
\* in every state of the tunnel what the target has received is a prefix of
\* what the client wrote after the 200, and what the client has received
\* after the 200 is a prefix of what the target wrote.
C3_TunnelPrefix ==
  command = "CONNECT" =>
    /\ (pc \in TunnelPcs \/ exitReason # "none") =>
         /\ Len(replies) = 1
         /\ replies[1].code = 200
         /\ replies[1].reason = "Connection Established"
    /\ (connectResult = "ok" /\ pc # "connected" /\ replies = <<>>) => cliEOF
    /\ (cliWritten # <<>> \/ tgtRecv # <<>> \/ cliRecv # <<>>) =>
         (Len(replies) = 1 /\ replies[1].code = 200)
    /\ IsPrefix(tgtRecv, cliWritten)
    /\ IsPrefix(cliRecv, tgtWritten)

\* A tunnel that has carried every byte both peers wrote, in several reads.
C3_Witness ==
  /\ command = "CONNECT"
  /\ pc = "select"
  /\ Len(cliWritten) = MaxData /\ tgtRecv = cliWritten
  /\ Len(tgtWritten) = MaxData /\ cliRecv = tgtWritten

\* C4: an authenticated CONNECT whose target cannot be connected to gets
\* one reply, a 502; the handler returns without entering the relay loop, no
\* upstream socket exists, and the connection ends with the client socket
\* closed. No connection is sent both a 200 and a 502.
C4_Unreachable ==
  command = "CONNECT" =>
    /\ connectResult = "refused" =>
         /\ Len(replies) = 1
         /\ replies[1].code = 502
         /\ pc \in {"return", "closed"}
         /\ close_connection /\ nreq = 1
         /\ pc = "closed" => ~clientOpen
         /\ ~remoteOpen
         /\ exitReason = "none" /\ rlist = {}
         /\ tgtRecv = <<>> /\ cliRecv = <<>>
    /\ \A i, j \in 1..Len(replies) :
         ~(replies[i].code = 200 /\ replies[j].code = 502)

\* A refused CONNECT of the provisioned account, answered 502 and closed.
C4_Witness ==
  /\ command = "CONNECT"
  /\ ~Unauthorized
  /\ connectResult = "refused"
  /\ pc = "closed"
  /\ ~clientOpen
  /\ replies = <<ErrorReply(502, "Bad gateway")>>

\* C5: the tunnel ends by timeout only after one select() wait of TIMEOUT
\* seconds in which neither socket was readable, so with every byte either
\* peer wrote already relayed; the timeout closes the upstream socket and the
\* client socket.
C5_IdleTimeout ==
  exitReason = "timeout" =>
    /\ idle = TIMEOUT
    /\ Readable = {}
    /\ tgtRecv = cliWritten /\ cliRecv = tgtWritten
    /\ ~clientOpen /\ ~remoteOpen
    /\ pc \in {"return", "closed"}

\* A tunnel that relayed data both ways and then timed out.
C5_Witness ==
  /\ exitReason = "timeout"
  /\ Len(tgtRecv) = MaxData
  /\ cliRecv # <<>>
  /\ ~clientOpen /\ ~remoteOpen

\* C7: for an authenticated forward request with Content-Length n >= 0 the
\* target never receives more than n body bytes, what it receives is a
\* prefix of what the client wrote, and once the body loop is done with a
\* client that supplied n bytes the target has, after the request head,
\* exactly the first n bytes.
C7_ExactBody ==
  (/\ command # "CONNECT"
   /\ HeaderContains(headers, H_CONTENT_LENGTH)
   /\ ParseInt(HeaderGet(headers, H_CONTENT_LENGTH)).ok
   /\ ParseInt(HeaderGet(headers, H_CONTENT_LENGTH)).val >= 0) =>
    /\ IsPrefix(tgtRecv, cliWritten)
    /\ Len(tgtRecv) <= ParseInt(HeaderGet(headers, H_CONTENT_LENGTH)).val
    /\ tgtRecv # <<>> => upReq.sent
    /\ (/\ connectResult = "ok"
        /\ pc \in {"fwd_relay", "return"}
        /\ Len(cliWritten) >= ParseInt(HeaderGet(headers, H_CONTENT_LENGTH)).val) =>
         /\ upReq.sent
         /\ tgtRecv = SubSeq(cliWritten, 1,
                             ParseInt(HeaderGet(headers, H_CONTENT_LENGTH)).val)

\* A body longer than one chunk, forwarded whole in two reads.
C7_Witness ==
  /\ command = "POST"
  /\ HeaderContains(headers, H_CONTENT_LENGTH)
  /\ HeaderGet(headers, H_CONTENT_LENGTH) = Digit(MaxData)
  /\ pc = "fwd_relay"
  /\ tgtRecv = cliWritten
  /\ Len(tgtRecv) = MaxData
  /\ MaxData > ChunkSize

\* C8: in the forward relay what the client has received is a prefix of
\* what the target wrote, and the proxy adds no reply of its own once the
\* request was sent; when the relay loop ends at the target's close, the
\* client has every byte the target wrote and the upstream socket is closed.
C8_ResponseVerbatim ==
  command # "CONNECT" =>
    /\ IsPrefix(cliRecv, tgtWritten)
    /\ cliRecv # <<>> => upReq.sent
    /\ upReq.sent => replies = <<>>
    /\ (connectResult = "ok" /\ pc = "return") =>
         /\ tgtEOF
         /\ cliRecv = tgtWritten
         /\ ~remoteOpen

\* A response longer than one chunk, relayed whole before the target closed.
C8_Witness ==
  /\ command = "GET"
  /\ connectResult = "ok"
  /\ pc = "return"
  /\ Len(tgtWritten) = MaxData
  /\ cliRecv = tgtWritten
  /\ MaxData > ChunkSize

\* C6: whatever the target has been sent of the header block of a forward
\* request, none of its field names is, lower-cased, proxy-authorization or
\* another hop-by-hop name, in whatever letter case and however many times
\* the client sent such fields.
C6_NoHopByHop ==
  command # "CONNECT" =>
    \A i \in 1..Len(upReq.headers) :
      Lower(upReq.headers[i][1]) \notin
        {Lower(H_PROXY_AUTHORIZATION), Lower(H_CONNECTION)} \cup HOP_BY_HOP

\* A request sent on whose client spelled one hop-by-hop name in two letter
\* cases, next to the credentials.
C6_Witness ==
  /\ upReq.sent
  /\ Len(headers) = 1 + MaxHdrs
  /\ \E i, j \in 1..Len(headers) :
       /\ headers[i][1] # headers[j][1]
       /\ Lower(headers[i][1]) = Lower(headers[j][1])
       /\ Lower(headers[i][1]) = Lower(H_CONNECTION)
  /\ Len(upReq.headers) = 1

-----------------------------------------------------------------------------
(* Claims about the reverse relay                                          *)

RECURSIVE Concat(_)
Concat(pieces) ==
  IF pieces = <<>> THEN <<>> ELSE pieces[1] \o Concat(Tail(pieces))

\* The relay answered with the upstream's reply and is done with it.
Relayed == rpc = "done" /\ callerStatus = 200

\* C10: once the relay is done with an upstream reply, the caller has the
\* whole body: in one piece when the reply's Content-Length is at most the
\* threshold, and otherwise chunk by chunk, every chunk the upstream
\* produces and in order, the upstream response being open whenever the
\* generator reads from it.
C10_BufferedOrStreamed ==
  /\ (Relayed /\ IsSmall(upHeaders)) => callerBody = <<upBody>>
  /\ (Relayed /\ ~IsSmall(upHeaders)) =>
       /\ Concat(callerBody) = upBody
       /\ Len(callerBody) = Len(upBody)
  /\ rpc = "gen" => upOpen

\* A streamed reply that ended with the caller holding none of the chunks
\* the upstream had to give.
C10_Witness ==
  /\ Relayed
  /\ ~IsSmall(upHeaders)
  /\ upBody # <<>>
  /\ callerBody = <<>>
  /\ upPos = 0

-----------------------------------------------------------------------------
(* Claims about configuration and the server                               *)

\* C11: the running proxy accepts credentials exactly when the store at its
\* configured location accepts them: a user provisioned at that location is
\* accepted, a user present only in another store is rejected.
C11_SharedLocation ==
  gate.called =>
    gate.result = verify_user(dbs[db_path].table, gate.user, gate.pw)

\* A proxy run with a location other than the built-in one that rejected
\* the password a user was provisioned with at that location.
C11_Witness ==
  /\ gate.called
  /\ db_path # DB_PATH
  /\ verify_user(dbs[db_path].table, gate.user, gate.pw)
  /\ ~gate.result

\* C18: the accept loop never waits on a connection that has a handler: it
\* is in its selector, or in the handshake of a connection no handler has
\* been started for; and while it is in its selector with a connection
\* queued it can accept it, whatever the handlers of other connections do.
C18_IndependentConnections ==
  /\ accepting.at \in {"select", "handshake"}
  /\ accepting.at = "handshake" => threads[accepting.conn] = "none"
  /\ (accepting = InSelect /\ backlog # {}) => ENABLED Accept

\* One handler waits in its relay, a second connection has been answered
\* and a third is queued with the accept loop free to take it.
C18_Witness ==
  /\ \E c, d \in Conns : threads[c] = "relaying" /\ threads[d] = "done"
  /\ backlog # {}
  /\ accepting = InSelect

-----------------------------------------------------------------------------
(* Claims about targets, sockets and replies                               *)

\* C12: an authenticated CONNECT is dispatched to the host and port of its
\* request target: to (host, port) for a target host:port, and to
\* (host, 443) for a target that is a host with no port.
C12_ConnectTarget ==
  (command = "CONNECT" /\ pc # "dispatch" /\ ~Unauthorized) =>
    /\ IndexOf(path, COLON) = 0 =>
         /\ connectResult # "none"
         /\ target.host = path
         /\ target.port = 443
    /\ (/\ IndexOf(path, COLON) # 0
        /\ ParseInt(RPartition(path).tail).ok) =>
         /\ connectResult # "none"
         /\ target.host = RPartition(path).head
         /\ target.port = ParseInt(RPartition(path).tail).val

\* An authenticated CONNECT to a host with no port that ended in an
\* exception before any connection attempt.
C12_Witness ==
  /\ command = "CONNECT"
  /\ path = <<104>> (* h *)
  /\ ~Unauthorized
  /\ pc = "raised"
  /\ connectResult = "none"
  /\ replies = <<>>

\* C13: once the connection is over, the client socket and the upstream
\* socket are both closed, on every path on which an upstream connection
\* had been opened.
C13_NoOrphanedSockets ==
  (pc = "closed" /\ connectResult = "ok") => (~clientOpen /\ ~remoteOpen)

\* A tunnel whose 200 could not be written: the connection is over, the
\* client socket closed and the upstream socket open.
C13_Witness ==
  /\ command = "CONNECT"
  /\ connectResult = "ok"
  /\ pc = "closed"
  /\ replies = <<>>
  /\ ~clientOpen
  /\ remoteOpen

\* C14: a connection is sent at most one status line of the proxy's own,
\* one of 200, 400, 407 and 502. A forward relay that has passed on a byte
\* of the upstream has sent none, and a tunnel that has passed on a byte has
\* sent its 200 and nothing else; an error after that only ends the
\* connection.
C14_OneStatusLine ==
  /\ Len(replies) <= 1
  /\ \A i \in 1..Len(replies) : replies[i].code \in {200, 400, 407, 502}
  /\ (command # "CONNECT" /\ cliRecv # <<>>) => replies = <<>>
  /\ (command = "CONNECT" /\ cliRecv # <<>>) =>
       (Len(replies) = 1 /\ replies[1].code = 200)

\* A forward relay that failed after it had passed on a part of the
\* response, and ended with no status line of the proxy.
C14_Witness ==
  /\ command = "GET"
  /\ pc = "closed"
  /\ cliRecv # <<>>
  /\ cliRecv # tgtWritten
  /\ ~tgtEOF
  /\ replies = <<>>

\* C15: a request that failed before any byte of a response reached the
\* client has been answered with a status: 407, 400 (and then no upstream
\* connection), or 502, also when the failure is a CONNECT port or a
\* Content-Length that is no number or an error while the request is sent
\* upstream.
C15_DefinitiveStatus ==
  /\ (pc = "raised" /\ cliRecv = <<>>) => Len(replies) = 1
  /\ (pc \in {"return", "closed"} /\ connectResult = "refused") =>
       (Len(replies) = 1 /\ replies[1].code = 502)
  /\ (Len(replies) = 1 /\ replies[1].code = 400) =>
       (connectResult = "none" /\ ~remoteOpen)

\* An authenticated CONNECT whose port is no number: the connection is over
\* and nothing was sent to the client.
C15_Witness ==
  /\ command = "CONNECT"
  /\ path = <<104, 58, 120>> (* h:x *)
  /\ pc = "closed"
  /\ ~clientOpen
  /\ replies = <<>>
  /\ cliRecv = <<>>

-----------------------------------------------------------------------------
(* Claims about the header block of a forwarded request                    *)

\* The number of fields of a header block equal to f in name and value.
Occurrences(hs, f) == Cardinality({i \in 1..Len(hs) : hs[i] = f})

\* The fields of a header block named Host, in whatever letter case.
HostFields(hs) == {i \in 1..Len(hs) : Lower(hs[i][1]) = Lower(H_HOST)}

\* C16: a forwarded request carries every field of the client whose name
\* is not hop-by-hop, with its value, as many times as the client sent it:
\* each occurrence of a repeated name reaches the target.
C16_EveryFieldForwarded ==
  (command # "CONNECT" /\ upReq.sent) =>
    \A i \in 1..Len(headers) :
      Lower(headers[i][1]) \notin HOP_BY_HOP =>
        Occurrences(upReq.headers, headers[i]) = Occurrences(headers, headers[i])

\* A request sent on whose client gave one name twice, with two values, and
\* the target has no field with the first of them.
C16_Witness ==
  /\ upReq.sent
  /\ \E i, j \in 1..Len(headers) :
       /\ i < j
       /\ headers[i][1] = headers[j][1]
       /\ headers[i][2] # headers[j][2]
       /\ Lower(headers[i][1]) \notin HOP_BY_HOP
       /\ Occurrences(upReq.headers, headers[i]) = 0
       /\ Occurrences(upReq.headers, headers[j]) = 1

\* C17: a forwarded request carries exactly one Host field: the client's
\* own when the client sent one, in whatever letter case, and otherwise one
\* whose value is the target host.
C17_ExactlyOneHost ==
  (command # "CONNECT" /\ upReq.sent) =>
    /\ Cardinality(HostFields(upReq.headers)) = 1
    /\ \A i \in HostFields(upReq.headers) :
         upReq.headers[i][2] =
           IF HeaderContains(headers, H_HOST)
             THEN HeaderGet(headers, H_HOST)
             ELSE target.host

\* A request sent on whose client spelled the field host: the target got
\* that field and a Host field of the proxy next to it.
C17_Witness ==
  /\ upReq.sent
  /\ HeaderContains(headers, H_HOST)
  /\ \A i \in HostFields(headers) : headers[i][1] = Lower(H_HOST)
  /\ Cardinality(HostFields(upReq.headers)) = 2
  /\ \E i \in HostFields(upReq.headers) : upReq.headers[i][1] = H_HOST

-----------------------------------------------------------------------------
(* Claims about termination                                                *)

\* C19: every wait of a handler is bounded by the timeout, so every handler
\* comes to an end and the server closes its client socket; and when
\* neither peer ever closes its side, whatever they send and wherever they
\* stall, the upstream socket is closed as well (a run in which no peer
\* closes comes to a state with the connection over and both sockets
\* closed).
C19_StalledPeersTerminate ==
  /\ <>(pc = "closed" /\ ~clientOpen)
  /\ <>(\/ cliEOF
        \/ tgtEOF
        \/ pc = "closed" /\ ~clientOpen /\ ~remoteOpen)

\* A handler that ended because a peer stalled: a tunnel after an idle
\* TIMEOUT, or a forward relay whose target stopped before the end of the
\* response, with neither peer having closed.
C19_Witness ==
  /\ pc = "closed"
  /\ ~cliEOF /\ ~tgtEOF
  /\ ~clientOpen /\ ~remoteOpen
  /\ \/ exitReason = "timeout" /\ idle = TIMEOUT /\ replies = <<R200>>
     \/ command = "GET" /\ upReq.sent /\ replies = <<>>

-----------------------------------------------------------------------------
(* Claims about the order of authentication and outbound actions           *)

\* C20: a connection attempt has been made, an upstream socket is open or a
\* byte has reached a target only for a request whose credentials the store
\* accepted; a request without such credentials, once dispatched, has been
\* answered 407 and nothing else, whether or not its target is well formed,
\* and no target was worked out for it.
C20_AuthBeforeOutbound ==
  /\ (\/ connectResult # "none"
      \/ remoteOpen
      \/ target # NoTarget
      \/ upReq # NoRequest
      \/ tgtRecv # <<>>) => ~Unauthorized
  /\ (Unauthorized /\ pc # "dispatch") =>
       /\ Len(replies) = 1
       /\ replies[1].code = 407
       /\ pc \in {"return", "closed"}

\* A CONNECT whose port is no number and a forward request in origin form
\* with no Host header, both without acceptable credentials: closed after
\* a 407, with no connection attempt.
C20_Witness ==
  /\ Unauthorized
  /\ pc = "closed"
  /\ replies = <<R407>>
  /\ connectResult = "none"
  /\ \/ command = "CONNECT" /\ path = <<104, 58, 120>> (* h:x *)
     \/ command = "GET" /\ path = <<47, 112>> (* /p *) /\ ~HeaderContains(headers, H_HOST)

====
